---- MODULE Spec2Model ----
(***************************************************************************)
(* dpservice-cli: the wire client (package client), the resource-to-wire   *)
(* mapping it performs, the commands that call it (package cmd) and the    *)
(* table converter and renderer registry (package renderer).               *)
(*                                                                         *)
(* One action is one complete invocation of one operation: the caller's    *)
(* input and the remote service's answer are chosen nondeterministically,  *)
(* the operation's code runs to completion, and the state records what it  *)
(* sent on the wire, what it returned, and what it left in the caller's    *)
(* input struct.                                                           *)
(***************************************************************************)
EXTENDS Integers, Sequences, FiniteSets, TLC

(***************************************************************************)
(* Bounds of the model.                                                    *)
(***************************************************************************)
\* largest value of the variable part of an address
MaxAddrVal == 1
\* largest prefix length
MaxBits == 1
\* largest status error code the service answers with
MaxCode == 1
\* largest number of elements of a list response
MaxItems == 3
\* largest number of ports of a load balancer
MaxPorts == 2
\* largest VNI
MaxVNI == 1

(***************************************************************************)
(* Text.  A text (a Go string or []byte) is a sequence of characters.      *)
(***************************************************************************)
DigitChars == <<"0", "1", "2", "3", "4", "5", "6", "7", "8", "9">>

DigitChar(n) == DigitChars[n + 1]

IsDigit(c) == \E i \in 1..Len(DigitChars) : DigitChars[i] = c

DigitValue(c) == (CHOOSE i \in 1..Len(DigitChars) : DigitChars[i] = c) - 1

\* []byte(s) and string(b): the same characters, as bytes
Bytes(s) == s

(***************************************************************************)
(* net/netip.  An address is its family (4 or 6; 0 for the zero Addr) and  *)
(* a value; an IPv4 address v prints as "v.0", an IPv6 address as "v::".   *)
(* A prefix is an address and a bit length and prints as "<addr>/<bits>".  *)
(***************************************************************************)
Nil == [kind |-> "nil"]

ZeroAddr == [fam |-> 0, val |-> 0]

Addr4(v) == [fam |-> 4, val |-> v]

Addr6(v) == [fam |-> 6, val |-> v]

Addrs == {Addr4(v) : v \in 0..MaxAddrVal} \cup {Addr6(v) : v \in 0..MaxAddrVal}

AddrIsValid(a) == a.fam # 0

\* netip.Addr.String
AddrString(a) ==
  CASE a.fam = 4 -> <<DigitChar(a.val), ".", "0">>
    [] a.fam = 6 -> <<DigitChar(a.val), ":", ":">>
    [] OTHER -> <<"i", "n", "v", "a", "l", "i", "d", " ", "I", "P">>

\* netip.ParseAddr: [ok, addr]
ParseAddr(t) ==
  IF Len(t) = 3 /\ IsDigit(t[1]) /\ t[2] = "." /\ t[3] = "0"
    THEN [ok |-> TRUE, addr |-> Addr4(DigitValue(t[1]))]
  ELSE IF Len(t) = 3 /\ IsDigit(t[1]) /\ t[2] = ":" /\ t[3] = ":"
    THEN [ok |-> TRUE, addr |-> Addr6(DigitValue(t[1]))]
  ELSE [ok |-> FALSE, addr |-> ZeroAddr]

ZeroPrefix == [addr |-> ZeroAddr, bits |-> 0]

PrefixFrom(a, b) == [addr |-> a, bits |-> b]

Prefixes == {PrefixFrom(a, b) : a \in Addrs, b \in 0..MaxBits}

\* netip.Prefix.String
PrefixString(p) == AddrString(p.addr) \o <<"/", DigitChar(p.bits)>>

\* netip.ParsePrefix: [ok, prefix]
ParsePrefix(t) ==
  IF Len(t) = 5 /\ t[4] = "/" /\ IsDigit(t[5]) /\ ParseAddr(SubSeq(t, 1, 3)).ok
    THEN [ok |-> TRUE, prefix |-> PrefixFrom(ParseAddr(SubSeq(t, 1, 3)).addr, DigitValue(t[5]))]
  ELSE [ok |-> FALSE, prefix |-> ZeroPrefix]

\* a text that is neither an address nor a prefix
Garbage == <<"x">>

(***************************************************************************)
(* Package api (dpdk/api): the address-family tag and the errors.          *)
(***************************************************************************)
IPv4 == "IPv4"

IPv6 == "IPv6"

\* api.NetIPAddrToProtoIPVersion: the tag of an address's own family
NetIPAddrToProtoIPVersion(a) == IF a.fam = 6 THEN IPv6 ELSE IPv4

\* apierrors.NewStatusError
NewStatusError(code, message) == [kind |-> "StatusError", code |-> code, message |-> message]

\* fmt.Errorf("error parsing underlay route: %w", err)
UnderlayRouteError(t) == [kind |-> "DecodeError", what |-> "error parsing underlay route", text |-> t]

(***************************************************************************)
(* The remote call.  An answer is a transport error (and no response) or   *)
(* a response; a response's status sub-structure may be absent (a nil      *)
(* pointer), which the generated getters read as code 0 and message "".    *)
(***************************************************************************)
TransportErrors == {[kind |-> "TransportError", what |-> w] : w \in {"unavailable", "deadline exceeded"}}

Messages == {"", "not found"}

Statuses == {[Error |-> c, Message |-> m] : c \in 0..MaxCode, m \in Messages}

\* (*Status).GetError, nil-safe
GetError(s) == IF s = Nil THEN 0 ELSE s.Error

\* (*Status).GetMessage, nil-safe
GetMessage(s) == IF s = Nil THEN "" ELSE s.Message

\* the answers of a remote call whose responses are drawn from R
Answers(R) ==
  {[terr |-> e, res |-> Nil] : e \in TransportErrors} \cup {[terr |-> Nil, res |-> x] : x \in R}

\* underlay-route texts a response may carry
UnderlayTexts == {AddrString(Addr6(MaxAddrVal)), AddrString(Addr4(0)), Garbage, <<>>}

(***************************************************************************)
(* What one invocation of an operation does: the requests it sent, the     *)
(* (result, error) pair it returned, the caller's input struct afterwards, *)
(* and whether it ended in a run-time panic instead of returning.          *)
(***************************************************************************)
Ret(req, result, error, after) ==
  [sent |-> <<req>>, result |-> result, err |-> error, inputAfter |-> after, panicked |-> FALSE]

Panic(req, after) ==
  [sent |-> <<req>>, result |-> Nil, err |-> Nil, inputAfter |-> after, panicked |-> TRUE]

(***************************************************************************)
(* Package api: the resource structs.  Each is TypeMeta, an embedded Meta  *)
(* struct, Spec and (for some kinds) Status; a field a composite literal   *)
(* does not name holds its zero value.                                     *)
(***************************************************************************)
IDs == {"4", "iface-1"}

VNIs == 0..MaxVNI

\* a struct without fields
EmptyStruct == [kind |-> "struct{}"]

TypeMeta(k) == [Kind |-> k]

LBPorts == {[Protocol |-> 6, Port |-> 443], [Protocol |-> 17, Port |-> 53]}

PortLists == UNION {[1..n -> LBPorts] : n \in 0..MaxPorts}

ZeroStatus == [Error |-> 0, Message |-> ""]

\* the api.LoadBalancer values a caller passes to CreateLoadBalancer
LoadBalancerInputs ==
  {[TypeMeta |-> TypeMeta(""),
    LoadBalancerMeta |-> [ID |-> id],
    Spec |-> [VNI |-> vni, LbVipIP |-> vip, Lbports |-> ports, UnderlayRoute |-> ur],
    Status |-> ZeroStatus] :
     id \in IDs, vni \in VNIs, vip \in Addrs, ports \in PortLists, ur \in {ZeroAddr, Addr6(0)}}

\* api.LbipToProtoLbip
LbipToProtoLbip(a) == [IpVersion |-> NetIPAddrToProtoIPVersion(a), Address |-> Bytes(AddrString(a))]

\* api.ProtoLbipToLbip: the address of a wire LBIP (the zero Addr when it does not parse)
ProtoLbipToLbip(w) == [Address |-> ParseAddr(w.Address).addr]

\* wire IPs of a response: well-formed ones and a malformed one
WireIPs == {LbipToProtoLbip(Addr4(0)), LbipToProtoLbip(Addr6(MaxAddrVal)), [IpVersion |-> IPv4, Address |-> Garbage]}

(***************************************************************************)
(* Load balancers.                                                         *)
(***************************************************************************)
GetLoadBalancerResponses ==
  {[Status |-> s, Vni |-> MaxVNI, LbVipIP |-> LbipToProtoLbip(Addr4(0)), Lbports |-> <<>>, UnderlayRoute |-> u] :
     s \in Statuses \cup {Nil}, u \in UnderlayTexts}

\* api.ProtoLoadBalancerToLoadBalancer: [obj, err]
ProtoLoadBalancerToLoadBalancer(res, id) ==
  IF ~ParseAddr(res.UnderlayRoute).ok
    THEN [obj |-> Nil, err |-> [kind |-> "DecodeError", what |-> "error parsing underlay ip", text |-> res.UnderlayRoute]]
  ELSE [obj |-> [TypeMeta |-> TypeMeta("LoadBalancer"),
                 LoadBalancerMeta |-> [ID |-> id],
                 Spec |-> [VNI |-> res.Vni,
                           LbVipIP |-> ProtoLbipToLbip(res.LbVipIP).Address,
                           Lbports |-> res.Lbports,
                           UnderlayRoute |-> ParseAddr(res.UnderlayRoute).addr],
                 Status |-> [Error |-> GetError(res.Status), Message |-> GetMessage(res.Status)]],
        err |-> Nil]

GetLoadBalancer(in, r) ==
  LET req == [rpc |-> "GetLoadBalancer", LoadBalancerID |-> Bytes(in.id)]
  IN IF r.terr # Nil THEN Ret(req, Nil, r.terr, in)
     ELSE IF GetError(r.res.Status) # 0
       THEN Ret(req, Nil, NewStatusError(GetError(r.res.Status), GetMessage(r.res.Status)), in)
     ELSE LET t == ProtoLoadBalancerToLoadBalancer(r.res, in.id)
          IN Ret(req, t.obj, t.err, in)

CreateLoadBalancerResponses == {[Status |-> s, UnderlayRoute |-> u] : s \in Statuses \cup {Nil}, u \in UnderlayTexts}

\* the loop of CreateLoadBalancer that builds the wire ports
RECURSIVE CreateLoadBalancerPorts(_, _, _)
CreateLoadBalancerPorts(ports, i, lbPorts) ==
  IF i > Len(ports) THEN lbPorts
  ELSE CreateLoadBalancerPorts(ports, i + 1, Append(lbPorts, [Port |-> ports[i].Port, Protocol |-> ports[i].Protocol]))

\* CreateLoadBalancer returning the spec as passed, without the parsed underlay route
CreateLoadBalancer_DropsRoute(lb, r) ==
  LET req == [rpc |-> "CreateLoadBalancer",
              LoadBalancerID |-> Bytes(lb.LoadBalancerMeta.ID),
              Vni |-> lb.Spec.VNI,
              LbVipIP |-> LbipToProtoLbip(lb.Spec.LbVipIP),
              Lbports |-> CreateLoadBalancerPorts(lb.Spec.Lbports, 1, <<>>)]
  IN IF r.terr # Nil THEN Ret(req, Nil, r.terr, lb)
     ELSE IF GetError(r.res.Status) # 0
       THEN Ret(req, Nil, NewStatusError(GetError(r.res.Status), GetMessage(r.res.Status)), lb)
     ELSE IF ~ParseAddr(r.res.UnderlayRoute).ok
       THEN Ret(req, Nil, UnderlayRouteError(r.res.UnderlayRoute), lb)
     ELSE IF r.res.Status = Nil
       THEN Panic(req, lb)
     ELSE Ret(req,
              [TypeMeta |-> TypeMeta("LoadBalancer"),
               LoadBalancerMeta |-> lb.LoadBalancerMeta,
               Spec |-> lb.Spec,
               Status |-> [Error |-> r.res.Status.Error, Message |-> r.res.Status.Message]],
              Nil, lb)

CreateLoadBalancer(lb, r) ==
  LET req == [rpc |-> "CreateLoadBalancer",
              LoadBalancerID |-> Bytes(lb.LoadBalancerMeta.ID),
              Vni |-> lb.Spec.VNI,
              LbVipIP |-> LbipToProtoLbip(lb.Spec.LbVipIP),
              Lbports |-> CreateLoadBalancerPorts(lb.Spec.Lbports, 1, <<>>)]
  IN IF r.terr # Nil THEN Ret(req, Nil, r.terr, lb)
     ELSE IF GetError(r.res.Status) # 0
       THEN Ret(req, Nil, NewStatusError(GetError(r.res.Status), GetMessage(r.res.Status)), lb)
     ELSE IF ~ParseAddr(r.res.UnderlayRoute).ok
       THEN Ret(req, Nil, UnderlayRouteError(r.res.UnderlayRoute), lb)
     ELSE LET lb2 == [lb EXCEPT !.Spec.UnderlayRoute = ParseAddr(r.res.UnderlayRoute).addr]
          IN IF r.res.Status = Nil
               THEN Panic(req, lb2)   \* res.Status.Error with res.Status == nil
             ELSE Ret(req,
                      [TypeMeta |-> TypeMeta("LoadBalancer"),
                       LoadBalancerMeta |-> lb2.LoadBalancerMeta,
                       Spec |-> lb2.Spec,
                       Status |-> [Error |-> r.res.Status.Error, Message |-> r.res.Status.Message]],
                      Nil, lb2)

DeleteLoadBalancer(in, r) ==
  LET req == [rpc |-> "DeleteLoadBalancer", LoadBalancerID |-> Bytes(in.id)]
  IN IF r.terr # Nil THEN Ret(req, Nil, r.terr, in)
     ELSE IF GetError(r.res) # 0 THEN Ret(req, Nil, NewStatusError(GetError(r.res), GetMessage(r.res)), in)
     ELSE Ret(req, Nil, Nil, in)

(***************************************************************************)
(* Prefixes: interface prefixes and load-balancer prefixes.                *)
(***************************************************************************)
\* the api.Prefix values a caller passes to CreatePrefix / CreateLoadBalancerPrefix
PrefixInputs ==
  {[TypeMeta |-> TypeMeta(k), PrefixMeta |-> [InterfaceID |-> id, Prefix |-> p], Spec |-> EmptyStruct] :
     k \in {"", "Prefix"}, id \in IDs, p \in Prefixes}

\* the (interfaceID, prefix) arguments of DeletePrefix / DeleteLoadBalancerPrefix
PrefixKeys == {[interfaceID |-> id, prefix |-> p] : id \in IDs, p \in Prefixes}

\* the zero api.Prefix, an element of make([]api.Prefix, n)
ZeroPrefixObj == [TypeMeta |-> TypeMeta(""), PrefixMeta |-> [InterfaceID |-> "", Prefix |-> ZeroPrefix], Spec |-> EmptyStruct]

\* wire prefixes of a list response: two well-formed ones and one with a malformed address
WirePrefixes ==
  {[IpVersion |-> IPv4, Address |-> AddrString(Addr4(0)), PrefixLength |-> MaxBits],
   [IpVersion |-> IPv6, Address |-> AddrString(Addr6(MaxAddrVal)), PrefixLength |-> 0],
   [IpVersion |-> IPv4, Address |-> Garbage, PrefixLength |-> 0]}

WireLBPrefixes ==
  {[IpVersion |-> w.IpVersion, Address |-> w.Address, PrefixLength |-> w.PrefixLength,
    UnderlayRoute |-> AddrString(Addr6(0))] : w \in WirePrefixes}

Lists(S) == UNION {[1..n -> S] : n \in 0..MaxItems}

\* api.ProtoPrefixToPrefix: [obj, err]
ProtoPrefixToPrefix(interfaceID, w) ==
  IF ~ParseAddr(w.Address).ok
    THEN [obj |-> Nil, err |-> [kind |-> "DecodeError", what |-> "error parsing dpdk prefix address", text |-> w.Address]]
  ELSE [obj |-> [TypeMeta |-> TypeMeta("Prefix"),
                 PrefixMeta |-> [InterfaceID |-> interfaceID,
                                 Prefix |-> PrefixFrom(ParseAddr(w.Address).addr, w.PrefixLength)],
                 Spec |-> EmptyStruct],
        err |-> Nil]

\* api.ProtoLBPrefixToProtoPrefix
ProtoLBPrefixToProtoPrefix(w) == [IpVersion |-> w.IpVersion, Address |-> w.Address, PrefixLength |-> w.PrefixLength]

ListPrefixesResponses == {[Status |-> s, Prefixes |-> l] : s \in Statuses \cup {Nil}, l \in Lists(WirePrefixes)}

\* the translation loop of ListPrefixes keeping the elements translated before a failure
RECURSIVE ListPrefixesLoop_Partial(_, _, _, _)
ListPrefixesLoop_Partial(interfaceID, elems, i, prefixes) ==
  IF i > Len(elems) THEN [items |-> prefixes, err |-> Nil]
  ELSE LET t == ProtoPrefixToPrefix(interfaceID, elems[i])
       IN IF t.err # Nil THEN [items |-> SubSeq(prefixes, 1, i - 1), err |-> Nil]
          ELSE ListPrefixesLoop_Partial(interfaceID, elems, i + 1, [prefixes EXCEPT ![i] = t.obj])

\* the translation loop of ListPrefixes: [items, err]
RECURSIVE ListPrefixesLoop(_, _, _, _)
ListPrefixesLoop(interfaceID, elems, i, prefixes) ==
  IF i > Len(elems) THEN [items |-> prefixes, err |-> Nil]
  ELSE LET t == ProtoPrefixToPrefix(interfaceID, elems[i])
       IN IF t.err # Nil THEN [items |-> Nil, err |-> t.err]
          ELSE ListPrefixesLoop(interfaceID, elems, i + 1, [prefixes EXCEPT ![i] = t.obj])

ListPrefixes(in, r) ==
  LET req == [rpc |-> "ListInterfacePrefixes", InterfaceID |-> Bytes(in.id)]
  IN IF r.terr # Nil THEN Ret(req, Nil, r.terr, in)
     ELSE LET l == ListPrefixesLoop(in.id, r.res.Prefixes, 1, [k \in 1..Len(r.res.Prefixes) |-> ZeroPrefixObj])
          IN IF l.err # Nil THEN Ret(req, Nil, l.err, in)
             ELSE Ret(req, [TypeMeta |-> TypeMeta("PrefixList"), Items |-> l.items], Nil, in)

ListLoadBalancerPrefixesResponses ==
  {[Status |-> s, Prefixes |-> l] : s \in Statuses \cup {Nil}, l \in Lists(WireLBPrefixes)}

\* the translation loop of ListLoadBalancerPrefixes: [items, err]
RECURSIVE ListLoadBalancerPrefixesLoop(_, _, _, _)
ListLoadBalancerPrefixesLoop(interfaceID, elems, i, prefixes) ==
  IF i > Len(elems) THEN [items |-> prefixes, err |-> Nil]
  ELSE LET t == ProtoPrefixToPrefix(interfaceID, ProtoLBPrefixToProtoPrefix(elems[i]))
       IN IF t.err # Nil THEN [items |-> Nil, err |-> t.err]
          ELSE ListLoadBalancerPrefixesLoop(interfaceID, elems, i + 1, [prefixes EXCEPT ![i] = t.obj])

ListLoadBalancerPrefixes(in, r) ==
  LET req == [rpc |-> "ListInterfaceLoadBalancerPrefixes", InterfaceID |-> Bytes(in.id)]
  IN IF r.terr # Nil THEN Ret(req, Nil, r.terr, in)
     ELSE LET l == ListLoadBalancerPrefixesLoop(in.id, r.res.Prefixes, 1,
                                                [k \in 1..Len(r.res.Prefixes) |-> ZeroPrefixObj])
          IN IF l.err # Nil THEN Ret(req, Nil, l.err, in)
             ELSE Ret(req, [TypeMeta |-> TypeMeta("PrefixList"), Items |-> l.items], Nil, in)

\* responses that are a status wrapped in a message
StatusResponses == {[Status |-> s] : s \in Statuses \cup {Nil}}

CreateLoadBalancerPrefix(prefix, r) ==
  LET req == [rpc |-> "CreateInterfaceLoadBalancerPrefix",
              InterfaceID |-> [InterfaceID |-> Bytes(prefix.PrefixMeta.InterfaceID)],
              Prefix |-> [IpVersion |-> NetIPAddrToProtoIPVersion(prefix.PrefixMeta.Prefix.addr),
                          Address |-> Bytes(AddrString(prefix.PrefixMeta.Prefix.addr)),
                          PrefixLength |-> prefix.PrefixMeta.Prefix.bits]]
  IN IF r.terr # Nil THEN Ret(req, Nil, r.terr, prefix)
     ELSE IF GetError(r.res.Status) # 0
       THEN Ret(req, Nil, NewStatusError(GetError(r.res.Status), GetMessage(r.res.Status)), prefix)
     ELSE Ret(req, [TypeMeta |-> TypeMeta("Prefix"), PrefixMeta |-> prefix.PrefixMeta, Spec |-> prefix.Spec],
              Nil, prefix)

DeleteLoadBalancerPrefix(in, r) ==
  LET req == [rpc |-> "DeleteInterfaceLoadBalancerPrefix",
              InterfaceID |-> [InterfaceID |-> Bytes(in.interfaceID)],
              Prefix |-> [IpVersion |-> NetIPAddrToProtoIPVersion(in.prefix.addr),
                          Address |-> Bytes(AddrString(in.prefix.addr)),
                          PrefixLength |-> in.prefix.bits]]
  IN IF r.terr # Nil THEN Ret(req, Nil, r.terr, in)
     ELSE IF GetError(r.res) # 0 THEN Ret(req, Nil, NewStatusError(GetError(r.res), GetMessage(r.res)), in)
     ELSE Ret(req, Nil, Nil, in)

CreatePrefix(prefix, r) ==
  LET req == [rpc |-> "AddInterfacePrefix",
              InterfaceID |-> [InterfaceID |-> Bytes(prefix.PrefixMeta.InterfaceID)],
              Prefix |-> [IpVersion |-> NetIPAddrToProtoIPVersion(prefix.PrefixMeta.Prefix.addr),
                          Address |-> Bytes(AddrString(prefix.PrefixMeta.Prefix.addr)),
                          PrefixLength |-> prefix.PrefixMeta.Prefix.bits]]
  IN IF r.terr # Nil THEN Ret(req, Nil, r.terr, prefix)
     ELSE IF GetError(r.res.Status) # 0
       THEN Ret(req, Nil, NewStatusError(GetError(r.res.Status), GetMessage(r.res.Status)), prefix)
     ELSE Ret(req, [TypeMeta |-> TypeMeta("Prefix"), PrefixMeta |-> prefix.PrefixMeta, Spec |-> prefix.Spec],
              Nil, prefix)

\* DeletePrefix wrapping the transport error
DeletePrefix_WrapsError(in, r) ==
  LET req == [rpc |-> "DeleteInterfacePrefix",
              InterfaceID |-> [InterfaceID |-> Bytes(in.interfaceID)],
              Prefix |-> [IpVersion |-> NetIPAddrToProtoIPVersion(in.prefix.addr),
                          Address |-> Bytes(AddrString(in.prefix.addr)),
                          PrefixLength |-> in.prefix.bits]]
  IN IF r.terr # Nil THEN Ret(req, Nil, [kind |-> "Wrapped", what |-> "error deleting prefix", inner |-> r.terr], in)
     ELSE IF GetError(r.res) # 0 THEN Ret(req, Nil, NewStatusError(GetError(r.res), GetMessage(r.res)), in)
     ELSE Ret(req, Nil, Nil, in)

DeletePrefix(in, r) ==
  LET req == [rpc |-> "DeleteInterfacePrefix",
              InterfaceID |-> [InterfaceID |-> Bytes(in.interfaceID)],
              Prefix |-> [IpVersion |-> NetIPAddrToProtoIPVersion(in.prefix.addr),
                          Address |-> Bytes(AddrString(in.prefix.addr)),
                          PrefixLength |-> in.prefix.bits]]
  IN IF r.terr # Nil THEN Ret(req, Nil, r.terr, in)
     ELSE IF GetError(r.res) # 0 THEN Ret(req, Nil, NewStatusError(GetError(r.res), GetMessage(r.res)), in)
     ELSE Ret(req, Nil, Nil, in)

(***************************************************************************)
(* Load-balancer targets.                                                  *)
(***************************************************************************)
LoadBalancerTargetInputs ==
  {[TypeMeta |-> TypeMeta(k), LoadBalancerTargetMeta |-> [ID |-> id], Spec |-> [TargetIP |-> [Address |-> a]]] :
     k \in {"", "LoadBalancerTarget"}, id \in IDs, a \in Addrs}

LoadBalancerTargetKeys == {[id |-> id, targetIP |-> a] : id \in IDs, a \in Addrs}

GetLoadBalancerTargetsResponses == {[Status |-> s, TargetIPs |-> l] : s \in Statuses \cup {Nil}, l \in Lists(WireIPs)}

ZeroLoadBalancerTarget ==
  [TypeMeta |-> TypeMeta(""), LoadBalancerTargetMeta |-> [ID |-> ""], Spec |-> [TargetIP |-> [Address |-> ZeroAddr]]]

\* the translation loop of GetLoadBalancerTargets
RECURSIVE GetLoadBalancerTargetsLoop(_, _, _, _)
GetLoadBalancerTargetsLoop(loadBalancerID, elems, i, lbtargets) ==
  IF i > Len(elems) THEN lbtargets
  ELSE GetLoadBalancerTargetsLoop(loadBalancerID, elems, i + 1,
         [lbtargets EXCEPT ![i] = [TypeMeta |-> TypeMeta("LoadBalancerTarget"),
                                   LoadBalancerTargetMeta |-> [ID |-> loadBalancerID],
                                   Spec |-> [TargetIP |-> ProtoLbipToLbip(elems[i])]]])

GetLoadBalancerTargets(in, r) ==
  LET req == [rpc |-> "GetLoadBalancerTargets", LoadBalancerID |-> Bytes(in.id)]
  IN IF r.terr # Nil THEN Ret(req, Nil, r.terr, in)
     ELSE IF GetError(r.res.Status) # 0
       THEN Ret(req, Nil, NewStatusError(GetError(r.res.Status), GetMessage(r.res.Status)), in)
     ELSE Ret(req,
              [TypeMeta |-> TypeMeta("LoadBalancerTargetList"),
               Items |-> GetLoadBalancerTargetsLoop(in.id, r.res.TargetIPs, 1,
                           [k \in 1..Len(r.res.TargetIPs) |-> ZeroLoadBalancerTarget])],
              Nil, in)

CreateLoadBalancerTarget(lbtarget, r) ==
  LET req == [rpc |-> "AddLoadBalancerTarget",
              LoadBalancerID |-> Bytes(lbtarget.LoadBalancerTargetMeta.ID),
              TargetIP |-> LbipToProtoLbip(lbtarget.Spec.TargetIP.Address)]
  IN IF r.terr # Nil THEN Ret(req, Nil, r.terr, lbtarget)
     ELSE IF GetError(r.res) # 0 THEN Ret(req, Nil, NewStatusError(GetError(r.res), GetMessage(r.res)), lbtarget)
     ELSE Ret(req,
              [TypeMeta |-> TypeMeta("LoadBalancerTarget"),
               LoadBalancerTargetMeta |-> lbtarget.LoadBalancerTargetMeta,
               Spec |-> lbtarget.Spec],
              Nil, lbtarget)

DeleteLoadBalancerTarget(in, r) ==
  LET req == [rpc |-> "DeleteLoadBalancerTarget",
              LoadBalancerID |-> Bytes(in.id),
              TargetIP |-> LbipToProtoLbip(in.targetIP)]
  IN IF r.terr # Nil THEN Ret(req, Nil, r.terr, in)
     ELSE IF GetError(r.res) # 0 THEN Ret(req, Nil, NewStatusError(GetError(r.res), GetMessage(r.res)), in)
     ELSE Ret(req, Nil, Nil, in)

(***************************************************************************)
(* Interfaces.                                                             *)
(***************************************************************************)
IPLists == {<<>>, <<Addr4(0)>>, <<Addr6(MaxAddrVal)>>, <<Addr4(MaxAddrVal), Addr6(0)>>, <<Addr6(0), Addr4(0)>>}

InterfaceInputs ==
  {[TypeMeta |-> TypeMeta(""),
    InterfaceMeta |-> [ID |-> id],
    Spec |-> [VNI |-> vni, Device |-> "net_tap0", IPs |-> ips],
    Status |-> [UnderlayIP |-> ZeroAddr]] :
     id \in IDs, vni \in VNIs, ips \in IPLists}

\* netiputil.FindIPv4: the first IPv4 address of the list, the zero Addr if there is none
FindIPv4(ips) ==
  IF \E i \in 1..Len(ips) : ips[i].fam = 4
    THEN ips[CHOOSE i \in 1..Len(ips) : ips[i].fam = 4 /\ \A j \in 1..(i - 1) : ips[j].fam # 4]
  ELSE ZeroAddr

\* netiputil.FindIPv6: the first IPv6 address of the list, the zero Addr if there is none
FindIPv6(ips) ==
  IF \E i \in 1..Len(ips) : ips[i].fam = 6
    THEN ips[CHOOSE i \in 1..Len(ips) : ips[i].fam = 6 /\ \A j \in 1..(i - 1) : ips[j].fam # 6]
  ELSE ZeroAddr

\* api.NetIPAddrToProtoIPConfig: no config for the zero Addr
NetIPAddrToProtoIPConfig(a) ==
  IF ~AddrIsValid(a) THEN Nil
  ELSE [IpVersion |-> NetIPAddrToProtoIPVersion(a), PrimaryAddress |-> Bytes(AddrString(a))]

WireInterfaces ==
  {[InterfaceID |-> "iface-1", Vni |-> MaxVNI, PciDpName |-> "net_tap0", UnderlayRoute |-> u] : u \in UnderlayTexts}

ZeroInterface ==
  [TypeMeta |-> TypeMeta(""), InterfaceMeta |-> [ID |-> ""], Spec |-> [VNI |-> 0, Device |-> "", IPs |-> <<>>],
   Status |-> [UnderlayIP |-> ZeroAddr]]

\* api.ProtoInterfaceToInterface: [obj, err]
ProtoInterfaceToInterface(w) ==
  IF ~ParseAddr(w.UnderlayRoute).ok
    THEN [obj |-> Nil, err |-> [kind |-> "DecodeError", what |-> "error parsing underlay ip", text |-> w.UnderlayRoute]]
  ELSE [obj |-> [TypeMeta |-> TypeMeta("Interface"),
                 InterfaceMeta |-> [ID |-> w.InterfaceID],
                 Spec |-> [VNI |-> w.Vni, Device |-> w.PciDpName, IPs |-> <<>>],
                 Status |-> [UnderlayIP |-> ParseAddr(w.UnderlayRoute).addr]],
        err |-> Nil]

GetInterfaceResponses == {[Status |-> s, Interface |-> w] : s \in Statuses \cup {Nil}, w \in WireInterfaces}

GetInterface(in, r) ==
  LET req == [rpc |-> "GetInterface", InterfaceID |-> Bytes(in.id)]
  IN IF r.terr # Nil THEN Ret(req, Nil, r.terr, in)
     ELSE IF GetError(r.res.Status) # 0
       THEN Ret(req, Nil, NewStatusError(GetError(r.res.Status), GetMessage(r.res.Status)), in)
     ELSE LET t == ProtoInterfaceToInterface(r.res.Interface)
          IN Ret(req, t.obj, t.err, in)

ListInterfacesResponses == {[Status |-> s, Interfaces |-> l] : s \in Statuses \cup {Nil}, l \in Lists(WireInterfaces)}

\* the translation loop of ListInterfaces: [items, err]
RECURSIVE ListInterfacesLoop(_, _, _)
ListInterfacesLoop(elems, i, ifaces) ==
  IF i > Len(elems) THEN [items |-> ifaces, err |-> Nil]
  ELSE LET t == ProtoInterfaceToInterface(elems[i])
       IN IF t.err # Nil THEN [items |-> Nil, err |-> t.err]
          ELSE ListInterfacesLoop(elems, i + 1, [ifaces EXCEPT ![i] = t.obj])

ListInterfaces(in, r) ==
  LET req == [rpc |-> "ListInterfaces"]
  IN IF r.terr # Nil THEN Ret(req, Nil, r.terr, in)
     ELSE LET l == ListInterfacesLoop(r.res.Interfaces, 1, [k \in 1..Len(r.res.Interfaces) |-> ZeroInterface])
          IN IF l.err # Nil THEN Ret(req, Nil, l.err, in)
             ELSE Ret(req, [TypeMeta |-> TypeMeta("InterfaceList"), Items |-> l.items], Nil, in)

\* CreateInterfaceResponse: the status and the route sit in an inner Response, which may be absent
CreateInterfaceResponses ==
  {[Response |-> Nil]} \cup
  {[Response |-> [Status |-> s, UnderlayRoute |-> u]] : s \in Statuses \cup {Nil}, u \in UnderlayTexts}

\* (*CreateInterfaceResponse).GetResponse().GetStatus(), nil-safe
GetResponseStatus(res) == IF res.Response = Nil THEN Nil ELSE res.Response.Status

\* (*CreateInterfaceResponse).GetResponse().GetUnderlayRoute(), nil-safe
GetResponseUnderlayRoute(res) == IF res.Response = Nil THEN <<>> ELSE res.Response.UnderlayRoute

\* CreateInterface ignoring the parse error and returning an empty underlay IP
CreateInterface_EmptyRoute(iface, r) ==
  LET req == [rpc |-> "CreateInterface",
              InterfaceType |-> "VirtualInterface",
              InterfaceID |-> Bytes(iface.InterfaceMeta.ID),
              Vni |-> iface.Spec.VNI,
              Ipv4Config |-> NetIPAddrToProtoIPConfig(FindIPv4(iface.Spec.IPs)),
              Ipv6Config |-> NetIPAddrToProtoIPConfig(FindIPv6(iface.Spec.IPs)),
              DeviceName |-> iface.Spec.Device]
  IN IF r.terr # Nil THEN Ret(req, Nil, r.terr, iface)
     ELSE IF GetError(GetResponseStatus(r.res)) # 0
       THEN Ret(req, Nil,
                NewStatusError(GetError(GetResponseStatus(r.res)), GetMessage(GetResponseStatus(r.res))), iface)
     ELSE Ret(req,
              [TypeMeta |-> TypeMeta("Interface"),
               InterfaceMeta |-> iface.InterfaceMeta,
               Spec |-> iface.Spec,
               Status |-> [UnderlayIP |-> ParseAddr(GetResponseUnderlayRoute(r.res)).addr]],
              Nil, iface)

CreateInterface(iface, r) ==
  LET req == [rpc |-> "CreateInterface",
              InterfaceType |-> "VirtualInterface",
              InterfaceID |-> Bytes(iface.InterfaceMeta.ID),
              Vni |-> iface.Spec.VNI,
              Ipv4Config |-> NetIPAddrToProtoIPConfig(FindIPv4(iface.Spec.IPs)),
              Ipv6Config |-> NetIPAddrToProtoIPConfig(FindIPv6(iface.Spec.IPs)),
              DeviceName |-> iface.Spec.Device]
  IN IF r.terr # Nil THEN Ret(req, Nil, r.terr, iface)
     ELSE IF GetError(GetResponseStatus(r.res)) # 0
       THEN Ret(req, Nil,
                NewStatusError(GetError(GetResponseStatus(r.res)), GetMessage(GetResponseStatus(r.res))), iface)
     ELSE IF ~ParseAddr(GetResponseUnderlayRoute(r.res)).ok
       THEN Ret(req, Nil, UnderlayRouteError(GetResponseUnderlayRoute(r.res)), iface)
     ELSE Ret(req,
              [TypeMeta |-> TypeMeta("Interface"),
               InterfaceMeta |-> iface.InterfaceMeta,
               Spec |-> iface.Spec,
               Status |-> [UnderlayIP |-> ParseAddr(GetResponseUnderlayRoute(r.res)).addr]],
              Nil, iface)

DeleteInterface(in, r) ==
  LET req == [rpc |-> "DeleteInterface", InterfaceID |-> Bytes(in.id)]
  IN IF r.terr # Nil THEN Ret(req, Nil, r.terr, in)
     ELSE IF GetError(r.res) # 0 THEN Ret(req, Nil, NewStatusError(GetError(r.res), GetMessage(r.res)), in)
     ELSE Ret(req, Nil, Nil, in)

(***************************************************************************)
(* Virtual IPs.                                                            *)
(***************************************************************************)
VirtualIPInputs ==
  {[TypeMeta |-> TypeMeta(k), VirtualIPMeta |-> [InterfaceID |-> id, IP |-> a], Spec |-> EmptyStruct] :
     k \in {"", "VirtualIP"}, id \in IDs, a \in Addrs}

GetVirtualIPResponses ==
  {[Status |-> s, IpVersion |-> w.IpVersion, Address |-> w.Address] : s \in Statuses \cup {Nil}, w \in WireIPs}

\* api.ProtoVirtualIPToVirtualIP: [obj, err]
ProtoVirtualIPToVirtualIP(interfaceID, res) ==
  IF ~ParseAddr(res.Address).ok
    THEN [obj |-> Nil, err |-> [kind |-> "DecodeError", what |-> "error parsing virtual ip address", text |-> res.Address]]
  ELSE [obj |-> [TypeMeta |-> TypeMeta("VirtualIP"),
                 VirtualIPMeta |-> [InterfaceID |-> interfaceID, IP |-> ParseAddr(res.Address).addr],
                 Spec |-> EmptyStruct],
        err |-> Nil]

GetVirtualIP(in, r) ==
  LET req == [rpc |-> "GetInterfaceVIP", InterfaceID |-> Bytes(in.id)]
  IN IF r.terr # Nil THEN Ret(req, Nil, r.terr, in)
     ELSE IF GetError(r.res.Status) # 0
       THEN Ret(req, Nil, NewStatusError(GetError(r.res.Status), GetMessage(r.res.Status)), in)
     ELSE LET t == ProtoVirtualIPToVirtualIP(in.id, r.res)
          IN Ret(req, t.obj, t.err, in)

CreateVirtualIP(virtualIP, r) ==
  LET req == [rpc |-> "AddInterfaceVIP",
              InterfaceID |-> Bytes(virtualIP.VirtualIPMeta.InterfaceID),
              InterfaceVIPIP |-> [IpVersion |-> NetIPAddrToProtoIPVersion(virtualIP.VirtualIPMeta.IP),
                                  Address |-> Bytes(AddrString(virtualIP.VirtualIPMeta.IP))]]
  IN IF r.terr # Nil THEN Ret(req, Nil, r.terr, virtualIP)
     ELSE IF GetError(r.res.Status) # 0
       THEN Ret(req, Nil, NewStatusError(GetError(r.res.Status), GetMessage(r.res.Status)), virtualIP)
     ELSE Ret(req,
              [TypeMeta |-> TypeMeta("VirtualIP"),
               VirtualIPMeta |-> [InterfaceID |-> "", IP |-> ZeroAddr],   \* not named by the literal
               Spec |-> virtualIP.Spec],
              Nil, virtualIP)

DeleteVirtualIP(in, r) ==
  LET req == [rpc |-> "DeleteInterfaceVIP", InterfaceID |-> Bytes(in.id)]
  IN IF r.terr # Nil THEN Ret(req, Nil, r.terr, in)
     ELSE IF GetError(r.res) # 0 THEN Ret(req, Nil, NewStatusError(GetError(r.res), GetMessage(r.res)), in)
     ELSE Ret(req, Nil, Nil, in)

(***************************************************************************)
(* Routes.  A route's VNI, prefix and next hop are promoted fields of the  *)
(* embedded RouteMeta (route.VNI, route.Prefix, route.NextHop).            *)
(***************************************************************************)
RouteInputs ==
  {[TypeMeta |-> TypeMeta(""),
    RouteMeta |-> [VNI |-> vni, Prefix |-> p, NextHop |-> [VNI |-> nvni, IP |-> a]],
    Spec |-> EmptyStruct] :
     vni \in VNIs, p \in Prefixes, nvni \in VNIs, a \in Addrs}

RouteKeys ==
  {[vni |-> vni, prefix |-> p, nextHopVNI |-> nvni, nextHopIP |-> a] :
     vni \in VNIs, p \in Prefixes, nvni \in VNIs, a \in Addrs}

ZeroRouteMeta == [VNI |-> 0, Prefix |-> ZeroPrefix, NextHop |-> [VNI |-> 0, IP |-> ZeroAddr]]

ZeroRoute == [TypeMeta |-> TypeMeta(""), RouteMeta |-> ZeroRouteMeta, Spec |-> EmptyStruct]

CreateRoute(route, r) ==
  LET req == [rpc |-> "AddRoute",
              Vni |-> [Vni |-> route.RouteMeta.VNI],
              Route |-> [IpVersion |-> NetIPAddrToProtoIPVersion(route.RouteMeta.NextHop.IP),
                         Weight |-> 100,
                         Prefix |-> [IpVersion |-> NetIPAddrToProtoIPVersion(route.RouteMeta.Prefix.addr),
                                     Address |-> Bytes(PrefixString(route.RouteMeta.Prefix)),
                                     PrefixLength |-> route.RouteMeta.Prefix.bits],
                         NexthopVNI |-> route.RouteMeta.NextHop.VNI,
                         NexthopAddress |-> Bytes(AddrString(route.RouteMeta.NextHop.IP))]]
  IN IF r.terr # Nil THEN Ret(req, Nil, r.terr, route)
     ELSE IF GetError(r.res) # 0 THEN Ret(req, Nil, NewStatusError(GetError(r.res), GetMessage(r.res)), route)
     ELSE Ret(req,
              [TypeMeta |-> TypeMeta("Route"),
               RouteMeta |-> ZeroRouteMeta,   \* not named by the literal
               Spec |-> route.Spec],
              Nil, route)

DeleteRoute(in, r) ==
  LET req == [rpc |-> "DeleteRoute",
              Vni |-> [Vni |-> in.vni],
              Route |-> [IpVersion |-> NetIPAddrToProtoIPVersion(in.nextHopIP),
                         Weight |-> 100,
                         Prefix |-> [IpVersion |-> NetIPAddrToProtoIPVersion(in.prefix.addr),
                                     Address |-> Bytes(PrefixString(in.prefix)),
                                     PrefixLength |-> in.prefix.bits],
                         NexthopVNI |-> in.nextHopVNI,
                         NexthopAddress |-> Bytes(AddrString(in.nextHopIP))]]
  IN IF r.terr # Nil THEN Ret(req, Nil, r.terr, in)
     ELSE IF GetError(r.res) # 0 THEN Ret(req, Nil, NewStatusError(GetError(r.res), GetMessage(r.res)), in)
     ELSE Ret(req, Nil, Nil, in)

\* wire routes of a list response: two well-formed ones and one with a malformed prefix address
WireRoutes ==
  {[IpVersion |-> IPv6, Weight |-> 100,
    Prefix |-> [IpVersion |-> IPv4, Address |-> AddrString(Addr4(0)), PrefixLength |-> MaxBits],
    NexthopVNI |-> MaxVNI, NexthopAddress |-> AddrString(Addr6(MaxAddrVal))],
   [IpVersion |-> IPv4, Weight |-> 100,
    Prefix |-> [IpVersion |-> IPv6, Address |-> AddrString(Addr6(0)), PrefixLength |-> 0],
    NexthopVNI |-> 0, NexthopAddress |-> AddrString(Addr4(MaxAddrVal))],
   [IpVersion |-> IPv6, Weight |-> 100,
    Prefix |-> [IpVersion |-> IPv4, Address |-> Garbage, PrefixLength |-> 0],
    NexthopVNI |-> 0, NexthopAddress |-> AddrString(Addr6(0))]}

\* api.ProtoRouteToRoute: [obj, err]
ProtoRouteToRoute(vni, w) ==
  IF ~ParseAddr(w.Prefix.Address).ok
    THEN [obj |-> Nil, err |-> [kind |-> "DecodeError", what |-> "error parsing prefix address", text |-> w.Prefix.Address]]
  ELSE IF ~ParseAddr(w.NexthopAddress).ok
    THEN [obj |-> Nil, err |-> [kind |-> "DecodeError", what |-> "error parsing netxt hop address", text |-> w.NexthopAddress]]
  ELSE [obj |-> [TypeMeta |-> TypeMeta("Route"),
                 RouteMeta |-> [VNI |-> vni,
                                Prefix |-> PrefixFrom(ParseAddr(w.Prefix.Address).addr, w.Prefix.PrefixLength),
                                NextHop |-> [VNI |-> w.NexthopVNI, IP |-> ParseAddr(w.NexthopAddress).addr]],
                 Spec |-> EmptyStruct],
        err |-> Nil]

ListRoutesResponses == {[Status |-> s, Routes |-> l] : s \in Statuses \cup {Nil}, l \in Lists(WireRoutes)}

\* the loop of ListRoutes filling the result from the back
RECURSIVE ListRoutesLoop_Reversed(_, _, _, _)
ListRoutesLoop_Reversed(vni, elems, i, routes) ==
  IF i > Len(elems) THEN [items |-> routes, err |-> Nil]
  ELSE LET t == ProtoRouteToRoute(vni, elems[i])
       IN IF t.err # Nil THEN [items |-> Nil, err |-> t.err]
          ELSE ListRoutesLoop_Reversed(vni, elems, i + 1, [routes EXCEPT ![Len(elems) + 1 - i] = t.obj])

\* the translation loop of ListRoutes: [items, err]
RECURSIVE ListRoutesLoop(_, _, _, _)
ListRoutesLoop(vni, elems, i, routes) ==
  IF i > Len(elems) THEN [items |-> routes, err |-> Nil]
  ELSE LET t == ProtoRouteToRoute(vni, elems[i])
       IN IF t.err # Nil THEN [items |-> Nil, err |-> t.err]
          ELSE ListRoutesLoop(vni, elems, i + 1, [routes EXCEPT ![i] = t.obj])

ListRoutes(in, r) ==
  LET req == [rpc |-> "ListRoutes", Vni |-> in.vni]
  IN IF r.terr # Nil THEN Ret(req, Nil, r.terr, in)
     ELSE LET l == ListRoutesLoop(in.vni, r.res.Routes, 1, [k \in 1..Len(r.res.Routes) |-> ZeroRoute])
          IN IF l.err # Nil THEN Ret(req, Nil, l.err, in)
             ELSE Ret(req, [TypeMeta |-> TypeMeta("RouteList"), Items |-> l.items], Nil, in)

(***************************************************************************)
(* NAT.                                                                    *)
(***************************************************************************)
NatInputs ==
  {[TypeMeta |-> TypeMeta(""),
    NatMeta |-> [InterfaceID |-> id],
    Spec |-> [NatVIPIP |-> a, MinPort |-> pr[1], MaxPort |-> pr[2], UnderlayRoute |-> ur],
    Status |-> ZeroStatus] :
     id \in IDs, a \in Addrs, pr \in {<<0, 1023>>, <<1024, 2047>>}, ur \in {ZeroAddr, Addr6(0)}}

GetNatResponses ==
  {[Status |-> s, NatVIPIP |-> [IpVersion |-> IPv4, Address |-> AddrString(Addr4(0))],
    MinPort |-> 0, MaxPort |-> 1023, UnderlayRoute |-> u] :
     s \in Statuses \cup {Nil}, u \in UnderlayTexts}

\* api.ProtoNatToNat: [obj, err]
ProtoNatToNat(res, interfaceID) ==
  IF ~ParseAddr(res.UnderlayRoute).ok
    THEN [obj |-> Nil, err |-> [kind |-> "DecodeError", what |-> "error parsing underlay ip", text |-> res.UnderlayRoute]]
  ELSE IF ~ParseAddr(res.NatVIPIP.Address).ok
    THEN [obj |-> Nil, err |-> [kind |-> "DecodeError", what |-> "error parsing nat ip", text |-> res.NatVIPIP.Address]]
  ELSE [obj |-> [TypeMeta |-> TypeMeta("Nat"),
                 NatMeta |-> [InterfaceID |-> interfaceID],
                 Spec |-> [NatVIPIP |-> ParseAddr(res.NatVIPIP.Address).addr,
                           MinPort |-> res.MinPort, MaxPort |-> res.MaxPort,
                           UnderlayRoute |-> ParseAddr(res.UnderlayRoute).addr],
                 Status |-> [Error |-> GetError(res.Status), Message |-> GetMessage(res.Status)]],
        err |-> Nil]

GetNat(in, r) ==
  LET req == [rpc |-> "GetNAT", InterfaceID |-> Bytes(in.id)]
  IN IF r.terr # Nil THEN Ret(req, Nil, r.terr, in)
     ELSE IF GetError(r.res.Status) # 0
       THEN Ret(req, Nil, NewStatusError(GetError(r.res.Status), GetMessage(r.res.Status)), in)
     ELSE LET t == ProtoNatToNat(r.res, in.id)
          IN Ret(req, t.obj, t.err, in)

CreateNatResponses == {[Status |-> s, UnderlayRoute |-> u] : s \in Statuses \cup {Nil}, u \in UnderlayTexts}

\* CreateNat decoding the underlay route before it looks at the status
CreateNat_DecodeFirst(nat, r) ==
  LET req == [rpc |-> "AddNAT",
              InterfaceID |-> Bytes(nat.NatMeta.InterfaceID),
              NatVIPIP |-> [IpVersion |-> NetIPAddrToProtoIPVersion(nat.Spec.NatVIPIP),
                            Address |-> Bytes(AddrString(nat.Spec.NatVIPIP))],
              MinPort |-> nat.Spec.MinPort,
              MaxPort |-> nat.Spec.MaxPort]
  IN IF r.terr # Nil THEN Ret(req, Nil, r.terr, nat)
     ELSE IF ~ParseAddr(r.res.UnderlayRoute).ok
       THEN Ret(req, Nil, UnderlayRouteError(r.res.UnderlayRoute), nat)
     ELSE IF GetError(r.res.Status) # 0
       THEN Ret(req, Nil, NewStatusError(GetError(r.res.Status), GetMessage(r.res.Status)), nat)
     ELSE LET nat2 == [nat EXCEPT !.Spec.UnderlayRoute = ParseAddr(r.res.UnderlayRoute).addr]
          IN IF r.res.Status = Nil
               THEN Panic(req, nat2)
             ELSE Ret(req,
                      [TypeMeta |-> TypeMeta("Nat"),
                       NatMeta |-> nat2.NatMeta,
                       Spec |-> nat2.Spec,
                       Status |-> [Error |-> r.res.Status.Error, Message |-> r.res.Status.Message]],
                      Nil, nat2)

CreateNat(nat, r) ==
  LET req == [rpc |-> "AddNAT",
              InterfaceID |-> Bytes(nat.NatMeta.InterfaceID),
              NatVIPIP |-> [IpVersion |-> NetIPAddrToProtoIPVersion(nat.Spec.NatVIPIP),
                            Address |-> Bytes(AddrString(nat.Spec.NatVIPIP))],
              MinPort |-> nat.Spec.MinPort,
              MaxPort |-> nat.Spec.MaxPort]
  IN IF r.terr # Nil THEN Ret(req, Nil, r.terr, nat)
     ELSE IF GetError(r.res.Status) # 0
       THEN Ret(req, Nil, NewStatusError(GetError(r.res.Status), GetMessage(r.res.Status)), nat)
     ELSE IF ~ParseAddr(r.res.UnderlayRoute).ok
       THEN Ret(req, Nil, UnderlayRouteError(r.res.UnderlayRoute), nat)
     ELSE LET nat2 == [nat EXCEPT !.Spec.UnderlayRoute = ParseAddr(r.res.UnderlayRoute).addr]
          IN IF r.res.Status = Nil
               THEN Panic(req, nat2)   \* res.Status.Error with res.Status == nil
             ELSE Ret(req,
                      [TypeMeta |-> TypeMeta("Nat"),
                       NatMeta |-> nat2.NatMeta,
                       Spec |-> nat2.Spec,
                       Status |-> [Error |-> r.res.Status.Error, Message |-> r.res.Status.Message]],
                      Nil, nat2)

(***************************************************************************)
(* The legacy command "prefix add" (cmd/prefix_add.go).  It builds the     *)
(* wire prefix itself from the --ipv4 / --ipv6 flags and calls the proto   *)
(* client directly.  os.Exit ends the process without running the          *)
(* deferred closer.Close.                                                  *)
(***************************************************************************)
\* what a user may pass as --ipv4 or --ipv6
FlagTexts == {<<>>, PrefixString(PrefixFrom(Addr4(0), MaxBits)), PrefixString(PrefixFrom(Addr6(MaxAddrVal), 0)), Garbage}

PrefixAddInputs == {[interface_id |-> id, ipv4 |-> a, ipv6 |-> b] : id \in IDs, a \in FlagTexts, b \in FlagTexts}

\* what one run of a command does
CmdOut(sentReqs, connState, code, lines) ==
  [sent |-> sentReqs, conn |-> connState, exitCode |-> code, printed |-> lines]

addPrefixCmd(in, r) ==
  LET parsed == IF in.ipv4 # <<>> THEN ParsePrefix(in.ipv4) ELSE ParsePrefix(in.ipv6)
      version == IF in.ipv4 # <<>> THEN IPv4 ELSE IPv6
      reg == [rpc |-> "AddInterfacePrefix",
              InterfaceID |-> [InterfaceID |-> Bytes(in.interface_id)],
              Prefix |-> [IpVersion |-> version,
                          Address |-> Bytes(AddrString(parsed.prefix.addr)),
                          PrefixLength |-> parsed.prefix.bits]]
  IN IF ~parsed.ok THEN CmdOut(<<>>, "open", 1, <<"Err:", "parse">>)
     ELSE IF r.terr # Nil THEN CmdOut(<<reg>>, "open", 1, <<"Err:", r.terr.what>>)
     ELSE CmdOut(<<reg>>, "closed", 0, <<"AddInterfacePrefix", "msg">>)

\* the legacy command "interface del" (delInterfaceCmd)
delInterfaceCmd(in, r) ==
  LET req == [rpc |-> "DeleteInterface", InterfaceID |-> Bytes(in.interface_id)]
  IN IF r.terr # Nil THEN CmdOut(<<req>>, "open", 1, <<"Err:", r.terr.what>>)
     ELSE CmdOut(<<req>>, "closed", 0, <<"DeleteInterface", "msg">>)

(***************************************************************************)
(* The commands "add loadbalancer" and "add lbtarget"                      *)
(* (cmd/create_loadbalancer.go).  They obtain the client from the factory, *)
(* defer the cleanup, call the client and hand the returned object to the  *)
(* renderer.  A deferred call runs when the function returns and when it   *)
(* panics.                                                                 *)
(***************************************************************************)
\* fmt.Errorf("<what>: %w", err)
Wrap(what, e) == [kind |-> "Wrapped", what |-> what, inner |-> e]

\* errors.ErrServerError
ErrServerError == [kind |-> "ErrServerError"]

\* the text of an error, in pieces (error.Error())
ErrorText(e) ==
  CASE e.kind = "StatusError" -> <<"[", "error code", " ", DigitChar(e.code), "]", " ", e.message>>
    [] e.kind = "TransportError" -> <<"rpc error: code = ", e.what>>
    [] e.kind = "ErrServerError" -> <<"server error">>
    [] OTHER -> <<e.what, ": ">> \o e.text

\* strings.Contains, on the pieces of a text
Contains(t, s) == \E i \in 1..Len(t) : t[i] = s

\* what dpdkClientFactory.NewClient returns as error (Nil: a client and its cleanup)
NewClientOutcomes == {Nil, [kind |-> "DialError", what |-> "connection refused"]}

\* what rendererFactory.RenderObject / RenderList returns
RenderOutcomes == {Nil, [kind |-> "RenderError", what |-> "unknown renderer"]}

\* the values of one --lbports entry
LbportTexts == {<<"T", "C", "P", "/", "4", "4", "3">>, <<"U", "D", "P", "/", "5", "3">>, Garbage}

RECURSIVE DecimalValue(_, _)
DecimalValue(digits, acc) ==
  IF digits = <<>> THEN acc ELSE DecimalValue(Tail(digits), acc * 10 + DigitValue(Head(digits)))

\* the protocol number of a protocol name (0: not a protocol name)
ProtocolNumber(name) ==
  IF name = <<"T", "C", "P">> THEN 6 ELSE IF name = <<"U", "D", "P">> THEN 17 ELSE 0

\* api.StringLbportToLbport, "<protocol>/<port>": [ok, port]
StringLbportToLbport(p) ==
  LET slashes == {i \in 1..Len(p) : p[i] = "/"}
      i == CHOOSE k \in slashes : TRUE
  IN IF Cardinality(slashes) # 1
          \/ ProtocolNumber(SubSeq(p, 1, i - 1)) = 0
          \/ i = Len(p)
          \/ \E k \in (i + 1)..Len(p) : ~IsDigit(p[k])
       THEN [ok |-> FALSE, port |-> Nil]
     ELSE [ok |-> TRUE,
           port |-> [Protocol |-> ProtocolNumber(SubSeq(p, 1, i - 1)),
                     Port |-> DecimalValue(SubSeq(p, i + 1, Len(p)), 0)]]

CreateLoadBalancerOptions ==
  {[Id |-> id, VNI |-> vni, LbVipIP |-> vip, Lbports |-> ports] :
     id \in IDs, vni \in VNIs, vip \in {Addr4(0), Addr6(MaxAddrVal)},
     ports \in UNION {[1..n -> LbportTexts] : n \in 0..MaxPorts}}

\* what one run of a Run... command does: the client call it made (requests sent, the object
\* and error the client returned), and what the command itself did
RunOut(sentReqs, obj, e, pan, connState, ret, rendered, touched) ==
  [sent |-> sentReqs, result |-> obj, err |-> e, panicked |-> pan, conn |-> connState,
   cmd |-> [ret |-> ret, rendered |-> rendered, touched |-> touched]]

\* a conversion loop that skips an entry it cannot convert and goes on
RECURSIVE RunCreateLoadBalancerPorts_SkipsBadEntry(_, _, _)
RunCreateLoadBalancerPorts_SkipsBadEntry(texts, i, ports) ==
  IF i > Len(texts) THEN [ok |-> TRUE, ports |-> ports]
  ELSE LET c == StringLbportToLbport(texts[i])
       IN IF ~c.ok THEN RunCreateLoadBalancerPorts_SkipsBadEntry(texts, i + 1, ports)
          ELSE RunCreateLoadBalancerPorts_SkipsBadEntry(texts, i + 1, Append(ports, c.port))

\* the conversion loop of RunCreateLoadBalancer: [ok, ports]
RECURSIVE RunCreateLoadBalancerPorts(_, _, _)
RunCreateLoadBalancerPorts(texts, i, ports) ==
  IF i > Len(texts) THEN [ok |-> TRUE, ports |-> ports]
  ELSE LET c == StringLbportToLbport(texts[i])
       IN IF ~c.ok THEN [ok |-> FALSE, ports |-> ports]
          ELSE RunCreateLoadBalancerPorts(texts, i + 1, Append(ports, c.port))

RunCreateLoadBalancer(opts, f, r, rr) ==
  IF f # Nil
    THEN RunOut(<<>>, Nil, Nil, FALSE, "none", Wrap("error creating dpdk client", f), <<>>, FALSE)
  ELSE LET conv == RunCreateLoadBalancerPorts(opts.Lbports, 1, <<>>)
       IN IF ~conv.ok
            THEN RunOut(<<>>, Nil, Nil, FALSE, "closed", Wrap("error converting port", Nil), <<>>, FALSE)
          ELSE LET out == CreateLoadBalancer([TypeMeta |-> TypeMeta(""),
                                              LoadBalancerMeta |-> [ID |-> opts.Id],
                                              Spec |-> [VNI |-> opts.VNI, LbVipIP |-> opts.LbVipIP,
                                                        Lbports |-> conv.ports, UnderlayRoute |-> ZeroAddr],
                                              Status |-> ZeroStatus], r)
                   lb == out.result
               IN IF out.panicked
                    THEN RunOut(out.sent, Nil, Nil, TRUE, "closed", Nil, <<>>, FALSE)
                  ELSE IF out.err # Nil /\ out.err # ErrServerError
                    THEN RunOut(out.sent, lb, out.err, FALSE, "closed",
                                Wrap("error adding loadbalancer", out.err), <<>>, FALSE)
                  ELSE IF lb = Nil
                    THEN RunOut(out.sent, lb, out.err, TRUE, "closed", Nil, <<>>, TRUE)
                  ELSE RunOut(out.sent, lb, out.err, FALSE, "closed", rr,
                              <<[operation |-> <<"added, underlay route: ">> \o AddrString(lb.Spec.UnderlayRoute),
                                 obj |-> [lb EXCEPT !.TypeMeta.Kind = "LoadBalancer",
                                                    !.LoadBalancerMeta.ID = opts.Id]]>>,
                              TRUE)

AddLoadBalancerTargetOptions == {[TargetIP |-> a, LoadBalancerID |-> id] : a \in Addrs, id \in IDs}

RunAddLoadBalancerTarget(opts, f, r, rr) ==
  IF f # Nil
    THEN RunOut(<<>>, Nil, Nil, FALSE, "none", Wrap("error creating dpdk client", f), <<>>, FALSE)
  ELSE LET out == CreateLoadBalancerTarget([TypeMeta |-> TypeMeta("LoadBalancerTarget"),
                                            LoadBalancerTargetMeta |-> [ID |-> opts.LoadBalancerID],
                                            Spec |-> [TargetIP |-> [Address |-> opts.TargetIP]]], r)
           lbtarget == out.result
       IN IF out.err # Nil /\ ~Contains(ErrorText(out.err), "error code")
            THEN RunOut(out.sent, lbtarget, out.err, FALSE, "closed",
                        Wrap("error adding loadbalancer target", out.err), <<>>, FALSE)
          ELSE RunOut(out.sent, lbtarget, out.err, FALSE, "closed", rr,
                      <<[operation |-> <<"added">>, obj |-> lbtarget]>>, TRUE)

(***************************************************************************)
(* The command "list nats" (RunListNats).  It sorts the items the client   *)
(* returned with sort.SliceStable and renders the list.  sort.SliceStable  *)
(* is the stable sort of package sort: insertion sort on blocks of         *)
(* blockSize elements, then symmetric merges of neighbouring blocks.       *)
(* Indexes are counted from 0, as in the source.                           *)
(***************************************************************************)
\* the code of a character, for the order of strings
CharCode(c) == IF c = "." THEN 46 ELSE IF c = ":" THEN 58 ELSE IF c = "/" THEN 47 ELSE 48 + DigitValue(c)

\* s < t for two strings
RECURSIVE StringLess(_, _)
StringLess(s, t) ==
  IF t = <<>> THEN FALSE
  ELSE IF s = <<>> THEN TRUE
  ELSE IF CharCode(Head(s)) # CharCode(Head(t)) THEN CharCode(Head(s)) < CharCode(Head(t))
  ELSE StringLess(Tail(s), Tail(t))

\* the values of --sort-by
SortBys == {"", "ip", "IP", "minport", "MaxPort", "underlayroute", "UnderlayRoute", "vni"}

\* strings.ToLower
ToLower(s) ==
  CASE s = "IP" -> "ip"
    [] s = "MaxPort" -> "maxport"
    [] s = "UnderlayRoute" -> "underlayroute"
    [] OTHER -> s

\* a NAT entry of the list; NatIP and UnderlayRoute are pointers and may be nil
NatEntry(id, natIP, minPort, maxPort, underlayRoute, vni) ==
  [TypeMeta |-> TypeMeta("Nat"), NatMeta |-> [InterfaceID |-> id],
   Spec |-> [NatIP |-> natIP, MinPort |-> minPort, MaxPort |-> maxPort, UnderlayRoute |-> underlayRoute,
             Vni |-> vni]]

NatEntries ==
  {NatEntry("a", Nil, 1024, 2047, Nil, MaxVNI),
   NatEntry("b", Addr4(0), 0, 2047, Addr6(MaxAddrVal), 0),
   NatEntry("c", Addr6(0), 1024, 1023, Addr6(0), MaxVNI),
   NatEntry("d", Addr4(MaxAddrVal), 0, 1023, Addr4(0), 0)}

\* the less function RunListNats hands to sort.SliceStable
NatLess(sortBy, mi, mj) ==
  CASE ToLower(sortBy) = "ip" ->
         IF mi.Spec.NatIP # Nil /\ mj.Spec.NatIP # Nil
           THEN StringLess(AddrString(mi.Spec.NatIP), AddrString(mj.Spec.NatIP))
         ELSE TRUE
    [] ToLower(sortBy) = "minport" -> mi.Spec.MinPort < mj.Spec.MinPort
    [] ToLower(sortBy) = "maxport" -> mi.Spec.MaxPort < mj.Spec.MaxPort
    [] ToLower(sortBy) = "underlayroute" ->
         IF mi.Spec.UnderlayRoute # Nil /\ mj.Spec.UnderlayRoute # Nil
           THEN StringLess(AddrString(mi.Spec.UnderlayRoute), AddrString(mj.Spec.UnderlayRoute))
         ELSE TRUE
    [] OTHER -> mi.Spec.Vni < mj.Spec.Vni

\* block size of the stable sort
blockSize == 20

\* data[k], k counted from 0
At(data, k) == data[k + 1]

\* data after the element at index from has been swapped step by step to index to
Move(data, from, to) ==
  IF to < from
    THEN SubSeq(data, 1, to) \o <<At(data, from)>> \o SubSeq(data, to + 1, from)
           \o SubSeq(data, from + 2, Len(data))
  ELSE SubSeq(data, 1, from) \o SubSeq(data, from + 2, to + 1) \o <<At(data, from)>>
         \o SubSeq(data, to + 2, Len(data))

\* rotate: the blocks [a, m) and [m, b) change places
Rotate(data, a, m, b) ==
  SubSeq(data, 1, a) \o SubSeq(data, m + 1, b) \o SubSeq(data, a + 1, m) \o SubSeq(data, b + 1, Len(data))

\* the inner loop of insertionSort: data[j] goes down while it is less than its left neighbour
RECURSIVE InsertDown(_, _, _, _)
InsertDown(data, j, a, sortBy) ==
  IF j > a /\ NatLess(sortBy, At(data, j), At(data, j - 1))
    THEN InsertDown(Move(data, j, j - 1), j - 1, a, sortBy)
  ELSE data

RECURSIVE InsertionSort(_, _, _, _, _)
InsertionSort(data, i, a, b, sortBy) ==
  IF i >= b THEN data ELSE InsertionSort(InsertDown(data, i, a, sortBy), i + 1, a, b, sortBy)

\* the three binary searches of symMerge
RECURSIVE SearchAfterFirst(_, _, _, _, _)
SearchAfterFirst(data, i, j, a, sortBy) ==
  IF i >= j THEN i
  ELSE LET h == (i + j) \div 2
       IN IF NatLess(sortBy, At(data, h), At(data, a)) THEN SearchAfterFirst(data, h + 1, j, a, sortBy)
          ELSE SearchAfterFirst(data, i, h, a, sortBy)

RECURSIVE SearchBeforeLast(_, _, _, _, _)
SearchBeforeLast(data, i, j, m, sortBy) ==
  IF i >= j THEN i
  ELSE LET h == (i + j) \div 2
       IN IF ~NatLess(sortBy, At(data, m), At(data, h)) THEN SearchBeforeLast(data, h + 1, j, m, sortBy)
          ELSE SearchBeforeLast(data, i, h, m, sortBy)

RECURSIVE SearchSymmetric(_, _, _, _, _)
SearchSymmetric(data, start, r, q, sortBy) ==
  IF start >= r THEN start
  ELSE LET c == (start + r) \div 2
       IN IF ~NatLess(sortBy, At(data, q - c), At(data, c)) THEN SearchSymmetric(data, c + 1, r, q, sortBy)
          ELSE SearchSymmetric(data, start, c, q, sortBy)

\* symMerge: merges the sorted blocks [a, m) and [m, b)
RECURSIVE SymMerge(_, _, _, _, _)
SymMerge(data, a, m, b, sortBy) ==
  IF m - a = 1
    THEN LET i == SearchAfterFirst(data, m, b, a, sortBy)
         IN IF a < i - 1 THEN Move(data, a, i - 1) ELSE data
  ELSE IF b - m = 1
    THEN LET i == SearchBeforeLast(data, a, m, m, sortBy)
         IN IF m > i THEN Move(data, m, i) ELSE data
  ELSE LET mid == (a + b) \div 2
           n == mid + m
           start == SearchSymmetric(data, IF m > mid THEN n - b ELSE a, IF m > mid THEN mid ELSE m,
                                    n - 1, sortBy)
           end == n - start
           d1 == IF start < m /\ m < end THEN Rotate(data, start, m, end) ELSE data
           d2 == IF a < start /\ start < mid THEN SymMerge(d1, a, start, mid, sortBy) ELSE d1
       IN IF mid < end /\ end < b THEN SymMerge(d2, mid, end, b, sortBy) ELSE d2

\* the first loop of stable: insertion sort of every block
RECURSIVE SortBlocks(_, _, _, _, _)
SortBlocks(data, a, b, n, sortBy) ==
  IF b <= n THEN SortBlocks(InsertionSort(data, a + 1, a, b, sortBy), b, b + blockSize, n, sortBy)
  ELSE InsertionSort(data, a + 1, a, n, sortBy)

\* one pass of merges of neighbouring blocks of size bs
RECURSIVE MergePass(_, _, _, _, _, _)
MergePass(data, a, b, bs, n, sortBy) ==
  IF b <= n THEN MergePass(SymMerge(data, a, a + bs, b, sortBy), b, b + 2 * bs, bs, n, sortBy)
  ELSE IF a + bs < n THEN SymMerge(data, a, a + bs, n, sortBy)
  ELSE data

RECURSIVE MergePasses(_, _, _, _)
MergePasses(data, bs, n, sortBy) ==
  IF bs < n THEN MergePasses(MergePass(data, 0, 2 * bs, bs, n, sortBy), 2 * bs, n, sortBy) ELSE data

\* sort.SliceStable(nats, less)
SliceStable(nats, sortBy) ==
  MergePasses(SortBlocks(nats, 0, blockSize, Len(nats), sortBy), blockSize, Len(nats), sortBy)

\* n copies of x
Repeat(x, n) == [k \in 1..n |-> x]

\* the lists client.ListNats returns: the short ones, and lists one longer than a block
NatLists ==
  Lists(NatEntries)
    \cup {Repeat(x, blockSize \div 2 - 1) \o <<y>> \o Repeat(z, blockSize \div 2) \o <<w>> :
            x \in NatEntries, y \in NatEntries, z \in NatEntries, w \in NatEntries}

\* what client.ListNats returns: an error and no list, or a list
ListNatsAnswers ==
  {[terr |-> e, res |-> Nil] : e \in TransportErrors}
    \cup {[terr |-> Nil, res |-> [TypeMeta |-> TypeMeta("NatList"), Items |-> l]] : l \in NatLists}

ListNatsOptions == {[NatIP |-> Addr4(0), NatType |-> "0", SortBy |-> s] : s \in SortBys}

RunListNats(opts, f, r, rr) ==
  IF f # Nil
    THEN RunOut(<<>>, Nil, Nil, FALSE, "none", Wrap("error creating dpdk client", f), <<>>, FALSE)
  ELSE LET call == [rpc |-> "ListNats", NatIP |-> opts.NatIP, NatType |-> opts.NatType]
       IN IF r.terr # Nil
            THEN RunOut(<<call>>, Nil, r.terr, FALSE, "closed", Wrap("error listing nats", r.terr), <<>>, FALSE)
          ELSE RunOut(<<call>>, r.res, Nil, FALSE, "closed", rr,
                      <<[operation |-> <<>>,
                         obj |-> [r.res EXCEPT !.Items = SliceStable(r.res.Items, opts.SortBy)]]>>,
                      TRUE)

(***************************************************************************)
(* Package renderer: the default table converter.  A value handed to the   *)
(* renderer is its dynamic type and the object or list it points to.       *)
(***************************************************************************)
TableData(headers, columns) == [Headers |-> headers, Columns |-> columns]

interfaceTable(ifaces) ==
  TableData(<<"ID", "VNI", "Device", "IPs", "UnderlayIP">>,
            [i \in 1..Len(ifaces) |->
               <<ifaces[i].InterfaceMeta.ID, ifaces[i].Spec.VNI, ifaces[i].Spec.Device, ifaces[i].Spec.IPs,
                 ifaces[i].Status.UnderlayIP>>])

prefixTable(prefixes) ==
  TableData(<<"Prefix">>, [i \in 1..Len(prefixes) |-> <<prefixes[i].PrefixMeta.Prefix>>])

routeTable(routes) ==
  TableData(<<"Prefix", "NextHopVNI", "NextHopIP">>,
            [i \in 1..Len(routes) |->
               <<routes[i].RouteMeta.Prefix, routes[i].RouteMeta.NextHop.VNI, routes[i].RouteMeta.NextHop.IP>>])

virtualIPTable(virtualIPs) ==
  TableData(<<"IP">>, [i \in 1..Len(virtualIPs) |-> <<virtualIPs[i].VirtualIPMeta.IP>>])

\* defaultTableConverter.ConvertToTable: [data, err]
ConvertToTable(v) ==
  CASE v.type = "*api.Interface" -> [data |-> interfaceTable(<<v.value>>), err |-> Nil]
    [] v.type = "*api.InterfaceList" -> [data |-> interfaceTable(v.value.Items), err |-> Nil]
    [] v.type = "*api.Prefix" -> [data |-> prefixTable(<<v.value>>), err |-> Nil]
    [] v.type = "*api.PrefixList" -> [data |-> prefixTable(v.value.Items), err |-> Nil]
    [] v.type = "*api.Route" -> [data |-> routeTable(<<v.value>>), err |-> Nil]
    [] v.type = "*api.RouteList" -> [data |-> routeTable(v.value.Items), err |-> Nil]
    [] v.type = "*api.VirtualIP" -> [data |-> virtualIPTable(<<v.value>>), err |-> Nil]
    [] OTHER -> [data |-> Nil, err |-> [kind |-> "UnsupportedType", what |-> "unsupported type", text |-> <<v.type>>]]

\* the objects the client's Get and Create methods return, one or two of each kind
ObjectsOfType ==
  [T \in {"*api.Interface", "*api.Prefix", "*api.Route", "*api.VirtualIP", "*api.LoadBalancer",
          "*api.LoadBalancerTarget", "*api.Nat"} |->
     CASE T = "*api.Interface" ->
            {ProtoInterfaceToInterface(w).obj : w \in {x \in WireInterfaces : ParseAddr(x.UnderlayRoute).ok}}
       [] T = "*api.Prefix" ->
            {ProtoPrefixToPrefix("iface-1", w).obj : w \in {x \in WirePrefixes : ParseAddr(x.Address).ok}}
       [] T = "*api.Route" ->
            {ProtoRouteToRoute(MaxVNI, w).obj : w \in {x \in WireRoutes : ParseAddr(x.Prefix.Address).ok}}
       [] T = "*api.VirtualIP" ->
            {[TypeMeta |-> TypeMeta("VirtualIP"), VirtualIPMeta |-> [InterfaceID |-> "4", IP |-> a],
              Spec |-> EmptyStruct] : a \in {Addr4(0), Addr6(MaxAddrVal)}}
       [] T = "*api.LoadBalancer" ->
            {[TypeMeta |-> TypeMeta("LoadBalancer"), LoadBalancerMeta |-> [ID |-> "4"],
              Spec |-> [VNI |-> MaxVNI, LbVipIP |-> Addr4(0), Lbports |-> ports,
                        UnderlayRoute |-> Addr6(MaxAddrVal)],
              Status |-> ZeroStatus] : ports \in {<<>>, <<[Protocol |-> 6, Port |-> 443]>>}}
       [] T = "*api.LoadBalancerTarget" ->
            {[TypeMeta |-> TypeMeta("LoadBalancerTarget"), LoadBalancerTargetMeta |-> [ID |-> "4"],
              Spec |-> [TargetIP |-> [Address |-> a]]] : a \in {Addr4(0), Addr6(MaxAddrVal)}}
       [] T = "*api.Nat" ->
            {[TypeMeta |-> TypeMeta("Nat"), NatMeta |-> [InterfaceID |-> "4"],
              Spec |-> [NatVIPIP |-> a, MinPort |-> 0, MaxPort |-> 1023, UnderlayRoute |-> Addr6(0)],
              Status |-> ZeroStatus] : a \in {Addr4(0), Addr6(MaxAddrVal)}}]

\* the list type the client returns for a kind, and the element type of a list type
ListTypes == {"*api.InterfaceList", "*api.PrefixList", "*api.RouteList", "*api.LoadBalancerTargetList"}

ListKind(L) ==
  CASE L = "*api.InterfaceList" -> "InterfaceList"
    [] L = "*api.PrefixList" -> "PrefixList"
    [] L = "*api.RouteList" -> "RouteList"
    [] L = "*api.LoadBalancerTargetList" -> "LoadBalancerTargetList"

ElemType(L) ==
  CASE L = "*api.InterfaceList" -> "*api.Interface"
    [] L = "*api.PrefixList" -> "*api.Prefix"
    [] L = "*api.RouteList" -> "*api.Route"
    [] L = "*api.LoadBalancerTargetList" -> "*api.LoadBalancerTarget"

\* the values a command hands to the renderer
RenderedValues ==
  UNION {{[type |-> T, value |-> x] : x \in ObjectsOfType[T]} : T \in DOMAIN ObjectsOfType}
    \cup UNION {{[type |-> L, value |-> [TypeMeta |-> TypeMeta(ListKind(L)), Items |-> l]] :
                   l \in Lists(ObjectsOfType[ElemType(L)])} : L \in ListTypes}

(***************************************************************************)
(* Package renderer: the registry of renderer constructors.                *)
(***************************************************************************)
RendererNames == {"json", "yaml", "table"}

\* the constructors (NewFunc values) a caller registers
NewFuncs == {"newJSON", "newYAML"}

Writers == {"os.Stdout", "os.Stderr"}

\* newFunc(w): the renderer a constructor builds
CallNewFunc(newFunc, w) == [builtBy |-> newFunc, w |-> w]

\* Registry.Register on the map m: [map, err]
Register_Overwrites(m, name, newFunc) ==
  [map |-> [n \in DOMAIN m \cup {name} |-> IF n = name THEN newFunc ELSE m[n]],
   err |-> IF name \in DOMAIN m
             THEN [kind |-> "AlreadyRegistered", what |-> "renderer is already registered", text |-> <<name>>]
           ELSE Nil]

Register(m, name, newFunc) ==
  IF name \in DOMAIN m
    THEN [map |-> m,
          err |-> [kind |-> "AlreadyRegistered", what |-> "renderer is already registered", text |-> <<name>>]]
  ELSE [map |-> [n \in DOMAIN m \cup {name} |-> IF n = name THEN newFunc ELSE m[n]], err |-> Nil]

\* Registry.New on the map m: [renderer, err]
New(m, name, w) ==
  IF name \notin DOMAIN m
    THEN [renderer |-> Nil, err |-> [kind |-> "UnknownRenderer", what |-> "unknown renderer", text |-> <<name>>]]
  ELSE [renderer |-> CallNewFunc(m[name], w), err |-> Nil]

(***************************************************************************)
(* State.                                                                  *)
(***************************************************************************)
VARIABLES
  pc,          \* "idle": nothing is running; "done": an invocation has finished
  op,          \* the operation invoked
  input,       \* the caller's input as passed
  answer,      \* what the remote service answers to the operation's call
  sent,        \* the requests the operation sent, in order
  result,      \* the result object returned (Nil: none)
  err,         \* the error returned (Nil: none)
  inputAfter,  \* the caller's input struct when the operation has finished
  panicked,    \* the operation ended in a run-time panic
  conn,        \* a command's connection: "none", "open", "closed"
  exitCode,    \* a command's exit code (-1: no command has ended)
  printed,     \* what a command printed
  cmd,         \* what a Run... command did: the error it returned, what it rendered
  newFuncByName,  \* Registry.newFuncByName
  registryRet  \* what the last Register or New call on the registry returned

registryVars == <<newFuncByName, registryRet>>

vars ==
  <<pc, op, input, answer, sent, result, err, inputAfter, panicked, conn, exitCode, printed, cmd,
    registryVars>>

Init ==
  /\ pc = "idle"
  /\ op = "none"
  /\ input = Nil
  /\ answer = Nil
  /\ sent = <<>>
  /\ result = Nil
  /\ err = Nil
  /\ inputAfter = Nil
  /\ panicked = FALSE
  /\ conn = "none"
  /\ exitCode = -1
  /\ printed = <<>>
  /\ cmd = Nil
  /\ newFuncByName = <<>>
  /\ registryRet = Nil

IdInputs == {[id |-> id] : id \in IDs}

DoGetLoadBalancer ==
  /\ pc = "idle"
  /\ \E in \in IdInputs, r \in Answers(GetLoadBalancerResponses) :
       LET out == GetLoadBalancer(in, r)
       IN /\ pc' = "done"
          /\ op' = "GetLoadBalancer"
          /\ input' = in
          /\ answer' = r
          /\ sent' = out.sent
          /\ result' = out.result
          /\ err' = out.err
          /\ inputAfter' = out.inputAfter
          /\ panicked' = out.panicked
          /\ UNCHANGED <<conn, exitCode, printed, cmd, registryVars>>

DoCreateLoadBalancer ==
  /\ pc = "idle"
  /\ \E in \in LoadBalancerInputs, r \in Answers(CreateLoadBalancerResponses) :
       LET out == CreateLoadBalancer(in, r)
       IN /\ pc' = "done"
          /\ op' = "CreateLoadBalancer"
          /\ input' = in
          /\ answer' = r
          /\ sent' = out.sent
          /\ result' = out.result
          /\ err' = out.err
          /\ inputAfter' = out.inputAfter
          /\ panicked' = out.panicked
          /\ UNCHANGED <<conn, exitCode, printed, cmd, registryVars>>

DoDeleteLoadBalancer ==
  /\ pc = "idle"
  /\ \E in \in IdInputs, r \in Answers(Statuses) :
       LET out == DeleteLoadBalancer(in, r)
       IN /\ pc' = "done"
          /\ op' = "DeleteLoadBalancer"
          /\ input' = in
          /\ answer' = r
          /\ sent' = out.sent
          /\ result' = out.result
          /\ err' = out.err
          /\ inputAfter' = out.inputAfter
          /\ panicked' = out.panicked
          /\ UNCHANGED <<conn, exitCode, printed, cmd, registryVars>>

DoListLoadBalancerPrefixes ==
  /\ pc = "idle"
  /\ \E in \in IdInputs, r \in Answers(ListLoadBalancerPrefixesResponses) :
       LET out == ListLoadBalancerPrefixes(in, r)
       IN /\ pc' = "done"
          /\ op' = "ListLoadBalancerPrefixes"
          /\ input' = in
          /\ answer' = r
          /\ sent' = out.sent
          /\ result' = out.result
          /\ err' = out.err
          /\ inputAfter' = out.inputAfter
          /\ panicked' = out.panicked
          /\ UNCHANGED <<conn, exitCode, printed, cmd, registryVars>>

DoCreateLoadBalancerPrefix ==
  /\ pc = "idle"
  /\ \E in \in PrefixInputs, r \in Answers(StatusResponses) :
       LET out == CreateLoadBalancerPrefix(in, r)
       IN /\ pc' = "done"
          /\ op' = "CreateLoadBalancerPrefix"
          /\ input' = in
          /\ answer' = r
          /\ sent' = out.sent
          /\ result' = out.result
          /\ err' = out.err
          /\ inputAfter' = out.inputAfter
          /\ panicked' = out.panicked
          /\ UNCHANGED <<conn, exitCode, printed, cmd, registryVars>>

DoDeleteLoadBalancerPrefix ==
  /\ pc = "idle"
  /\ \E in \in PrefixKeys, r \in Answers(Statuses) :
       LET out == DeleteLoadBalancerPrefix(in, r)
       IN /\ pc' = "done"
          /\ op' = "DeleteLoadBalancerPrefix"
          /\ input' = in
          /\ answer' = r
          /\ sent' = out.sent
          /\ result' = out.result
          /\ err' = out.err
          /\ inputAfter' = out.inputAfter
          /\ panicked' = out.panicked
          /\ UNCHANGED <<conn, exitCode, printed, cmd, registryVars>>

DoGetLoadBalancerTargets ==
  /\ pc = "idle"
  /\ \E in \in IdInputs, r \in Answers(GetLoadBalancerTargetsResponses) :
       LET out == GetLoadBalancerTargets(in, r)
       IN /\ pc' = "done"
          /\ op' = "GetLoadBalancerTargets"
          /\ input' = in
          /\ answer' = r
          /\ sent' = out.sent
          /\ result' = out.result
          /\ err' = out.err
          /\ inputAfter' = out.inputAfter
          /\ panicked' = out.panicked
          /\ UNCHANGED <<conn, exitCode, printed, cmd, registryVars>>

DoCreateLoadBalancerTarget ==
  /\ pc = "idle"
  /\ \E in \in LoadBalancerTargetInputs, r \in Answers(Statuses) :
       LET out == CreateLoadBalancerTarget(in, r)
       IN /\ pc' = "done"
          /\ op' = "CreateLoadBalancerTarget"
          /\ input' = in
          /\ answer' = r
          /\ sent' = out.sent
          /\ result' = out.result
          /\ err' = out.err
          /\ inputAfter' = out.inputAfter
          /\ panicked' = out.panicked
          /\ UNCHANGED <<conn, exitCode, printed, cmd, registryVars>>

DoDeleteLoadBalancerTarget ==
  /\ pc = "idle"
  /\ \E in \in LoadBalancerTargetKeys, r \in Answers(Statuses) :
       LET out == DeleteLoadBalancerTarget(in, r)
       IN /\ pc' = "done"
          /\ op' = "DeleteLoadBalancerTarget"
          /\ input' = in
          /\ answer' = r
          /\ sent' = out.sent
          /\ result' = out.result
          /\ err' = out.err
          /\ inputAfter' = out.inputAfter
          /\ panicked' = out.panicked
          /\ UNCHANGED <<conn, exitCode, printed, cmd, registryVars>>

DoGetInterface ==
  /\ pc = "idle"
  /\ \E in \in IdInputs, r \in Answers(GetInterfaceResponses) :
       LET out == GetInterface(in, r)
       IN /\ pc' = "done"
          /\ op' = "GetInterface"
          /\ input' = in
          /\ answer' = r
          /\ sent' = out.sent
          /\ result' = out.result
          /\ err' = out.err
          /\ inputAfter' = out.inputAfter
          /\ panicked' = out.panicked
          /\ UNCHANGED <<conn, exitCode, printed, cmd, registryVars>>

DoListInterfaces ==
  /\ pc = "idle"
  /\ \E r \in Answers(ListInterfacesResponses) :
       LET out == ListInterfaces(Nil, r)
       IN /\ pc' = "done"
          /\ op' = "ListInterfaces"
          /\ input' = Nil
          /\ answer' = r
          /\ sent' = out.sent
          /\ result' = out.result
          /\ err' = out.err
          /\ inputAfter' = out.inputAfter
          /\ panicked' = out.panicked
          /\ UNCHANGED <<conn, exitCode, printed, cmd, registryVars>>

DoCreateInterface ==
  /\ pc = "idle"
  /\ \E in \in InterfaceInputs, r \in Answers(CreateInterfaceResponses) :
       LET out == CreateInterface(in, r)
       IN /\ pc' = "done"
          /\ op' = "CreateInterface"
          /\ input' = in
          /\ answer' = r
          /\ sent' = out.sent
          /\ result' = out.result
          /\ err' = out.err
          /\ inputAfter' = out.inputAfter
          /\ panicked' = out.panicked
          /\ UNCHANGED <<conn, exitCode, printed, cmd, registryVars>>

DoDeleteInterface ==
  /\ pc = "idle"
  /\ \E in \in IdInputs, r \in Answers(Statuses) :
       LET out == DeleteInterface(in, r)
       IN /\ pc' = "done"
          /\ op' = "DeleteInterface"
          /\ input' = in
          /\ answer' = r
          /\ sent' = out.sent
          /\ result' = out.result
          /\ err' = out.err
          /\ inputAfter' = out.inputAfter
          /\ panicked' = out.panicked
          /\ UNCHANGED <<conn, exitCode, printed, cmd, registryVars>>

DoGetVirtualIP ==
  /\ pc = "idle"
  /\ \E in \in IdInputs, r \in Answers(GetVirtualIPResponses) :
       LET out == GetVirtualIP(in, r)
       IN /\ pc' = "done"
          /\ op' = "GetVirtualIP"
          /\ input' = in
          /\ answer' = r
          /\ sent' = out.sent
          /\ result' = out.result
          /\ err' = out.err
          /\ inputAfter' = out.inputAfter
          /\ panicked' = out.panicked
          /\ UNCHANGED <<conn, exitCode, printed, cmd, registryVars>>

DoCreateVirtualIP ==
  /\ pc = "idle"
  /\ \E in \in VirtualIPInputs, r \in Answers(StatusResponses) :
       LET out == CreateVirtualIP(in, r)
       IN /\ pc' = "done"
          /\ op' = "CreateVirtualIP"
          /\ input' = in
          /\ answer' = r
          /\ sent' = out.sent
          /\ result' = out.result
          /\ err' = out.err
          /\ inputAfter' = out.inputAfter
          /\ panicked' = out.panicked
          /\ UNCHANGED <<conn, exitCode, printed, cmd, registryVars>>

DoDeleteVirtualIP ==
  /\ pc = "idle"
  /\ \E in \in IdInputs, r \in Answers(Statuses) :
       LET out == DeleteVirtualIP(in, r)
       IN /\ pc' = "done"
          /\ op' = "DeleteVirtualIP"
          /\ input' = in
          /\ answer' = r
          /\ sent' = out.sent
          /\ result' = out.result
          /\ err' = out.err
          /\ inputAfter' = out.inputAfter
          /\ panicked' = out.panicked
          /\ UNCHANGED <<conn, exitCode, printed, cmd, registryVars>>

DoListPrefixes ==
  /\ pc = "idle"
  /\ \E in \in IdInputs, r \in Answers(ListPrefixesResponses) :
       LET out == ListPrefixes(in, r)
       IN /\ pc' = "done"
          /\ op' = "ListPrefixes"
          /\ input' = in
          /\ answer' = r
          /\ sent' = out.sent
          /\ result' = out.result
          /\ err' = out.err
          /\ inputAfter' = out.inputAfter
          /\ panicked' = out.panicked
          /\ UNCHANGED <<conn, exitCode, printed, cmd, registryVars>>

DoCreatePrefix ==
  /\ pc = "idle"
  /\ \E in \in PrefixInputs, r \in Answers(StatusResponses) :
       LET out == CreatePrefix(in, r)
       IN /\ pc' = "done"
          /\ op' = "CreatePrefix"
          /\ input' = in
          /\ answer' = r
          /\ sent' = out.sent
          /\ result' = out.result
          /\ err' = out.err
          /\ inputAfter' = out.inputAfter
          /\ panicked' = out.panicked
          /\ UNCHANGED <<conn, exitCode, printed, cmd, registryVars>>

DoDeletePrefix ==
  /\ pc = "idle"
  /\ \E in \in PrefixKeys, r \in Answers(Statuses) :
       LET out == DeletePrefix(in, r)
       IN /\ pc' = "done"
          /\ op' = "DeletePrefix"
          /\ input' = in
          /\ answer' = r
          /\ sent' = out.sent
          /\ result' = out.result
          /\ err' = out.err
          /\ inputAfter' = out.inputAfter
          /\ panicked' = out.panicked
          /\ UNCHANGED <<conn, exitCode, printed, cmd, registryVars>>

DoListRoutes ==
  /\ pc = "idle"
  /\ \E in \in {[vni |-> v] : v \in VNIs}, r \in Answers(ListRoutesResponses) :
       LET out == ListRoutes(in, r)
       IN /\ pc' = "done"
          /\ op' = "ListRoutes"
          /\ input' = in
          /\ answer' = r
          /\ sent' = out.sent
          /\ result' = out.result
          /\ err' = out.err
          /\ inputAfter' = out.inputAfter
          /\ panicked' = out.panicked
          /\ UNCHANGED <<conn, exitCode, printed, cmd, registryVars>>

DoCreateRoute ==
  /\ pc = "idle"
  /\ \E in \in RouteInputs, r \in Answers(Statuses) :
       LET out == CreateRoute(in, r)
       IN /\ pc' = "done"
          /\ op' = "CreateRoute"
          /\ input' = in
          /\ answer' = r
          /\ sent' = out.sent
          /\ result' = out.result
          /\ err' = out.err
          /\ inputAfter' = out.inputAfter
          /\ panicked' = out.panicked
          /\ UNCHANGED <<conn, exitCode, printed, cmd, registryVars>>

DoDeleteRoute ==
  /\ pc = "idle"
  /\ \E in \in RouteKeys, r \in Answers(Statuses) :
       LET out == DeleteRoute(in, r)
       IN /\ pc' = "done"
          /\ op' = "DeleteRoute"
          /\ input' = in
          /\ answer' = r
          /\ sent' = out.sent
          /\ result' = out.result
          /\ err' = out.err
          /\ inputAfter' = out.inputAfter
          /\ panicked' = out.panicked
          /\ UNCHANGED <<conn, exitCode, printed, cmd, registryVars>>

DoGetNat ==
  /\ pc = "idle"
  /\ \E in \in IdInputs, r \in Answers(GetNatResponses) :
       LET out == GetNat(in, r)
       IN /\ pc' = "done"
          /\ op' = "GetNat"
          /\ input' = in
          /\ answer' = r
          /\ sent' = out.sent
          /\ result' = out.result
          /\ err' = out.err
          /\ inputAfter' = out.inputAfter
          /\ panicked' = out.panicked
          /\ UNCHANGED <<conn, exitCode, printed, cmd, registryVars>>

DoCreateNat ==
  /\ pc = "idle"
  /\ \E in \in NatInputs, r \in Answers(CreateNatResponses) :
       LET out == CreateNat(in, r)
       IN /\ pc' = "done"
          /\ op' = "CreateNat"
          /\ input' = in
          /\ answer' = r
          /\ sent' = out.sent
          /\ result' = out.result
          /\ err' = out.err
          /\ inputAfter' = out.inputAfter
          /\ panicked' = out.panicked
          /\ UNCHANGED <<conn, exitCode, printed, cmd, registryVars>>

DoPrefixAdd ==
  /\ pc = "idle"
  /\ \E in \in PrefixAddInputs, r \in Answers(StatusResponses) :
       LET out == addPrefixCmd(in, r)
       IN /\ pc' = "done"
          /\ op' = "prefix add"
          /\ input' = in
          /\ answer' = r
          /\ sent' = out.sent
          /\ conn' = out.conn
          /\ exitCode' = out.exitCode
          /\ printed' = out.printed
          /\ UNCHANGED <<result, err, inputAfter, panicked, cmd, registryVars>>

DoDelInterface ==
  /\ pc = "idle"
  /\ \E in \in {[interface_id |-> id] : id \in IDs}, r \in Answers(Statuses) :
       LET out == delInterfaceCmd(in, r)
       IN /\ pc' = "done"
          /\ op' = "interface del"
          /\ input' = in
          /\ answer' = r
          /\ sent' = out.sent
          /\ conn' = out.conn
          /\ exitCode' = out.exitCode
          /\ printed' = out.printed
          /\ UNCHANGED <<result, err, inputAfter, panicked, cmd, registryVars>>

DoRunCreateLoadBalancer ==
  /\ pc = "idle"
  /\ \E opts \in CreateLoadBalancerOptions, f \in NewClientOutcomes,
        r \in Answers(CreateLoadBalancerResponses), rr \in RenderOutcomes :
       LET out == RunCreateLoadBalancer(opts, f, r, rr)
       IN /\ pc' = "done"
          /\ op' = "RunCreateLoadBalancer"
          /\ input' = [opts |-> opts, factory |-> f, render |-> rr]
          /\ answer' = r
          /\ sent' = out.sent
          /\ result' = out.result
          /\ err' = out.err
          /\ panicked' = out.panicked
          /\ conn' = out.conn
          /\ cmd' = out.cmd
          /\ UNCHANGED <<inputAfter, exitCode, printed, registryVars>>

DoRunAddLoadBalancerTarget ==
  /\ pc = "idle"
  /\ \E opts \in AddLoadBalancerTargetOptions, f \in NewClientOutcomes,
        r \in Answers(Statuses), rr \in RenderOutcomes :
       LET out == RunAddLoadBalancerTarget(opts, f, r, rr)
       IN /\ pc' = "done"
          /\ op' = "RunAddLoadBalancerTarget"
          /\ input' = [opts |-> opts, factory |-> f, render |-> rr]
          /\ answer' = r
          /\ sent' = out.sent
          /\ result' = out.result
          /\ err' = out.err
          /\ panicked' = out.panicked
          /\ conn' = out.conn
          /\ cmd' = out.cmd
          /\ UNCHANGED <<inputAfter, exitCode, printed, registryVars>>

DoRunListNats ==
  /\ pc = "idle"
  /\ \E opts \in ListNatsOptions, f \in NewClientOutcomes, r \in ListNatsAnswers, rr \in RenderOutcomes :
       LET out == RunListNats(opts, f, r, rr)
       IN /\ pc' = "done"
          /\ op' = "RunListNats"
          /\ input' = [opts |-> opts, factory |-> f, render |-> rr]
          /\ answer' = r
          /\ sent' = out.sent
          /\ result' = out.result
          /\ err' = out.err
          /\ panicked' = out.panicked
          /\ conn' = out.conn
          /\ cmd' = out.cmd
          /\ UNCHANGED <<inputAfter, exitCode, printed, registryVars>>

DoConvertToTable ==
  /\ pc = "idle"
  /\ \E v \in RenderedValues :
       LET out == ConvertToTable(v)
       IN /\ pc' = "done"
          /\ op' = "ConvertToTable"
          /\ input' = v
          /\ result' = out.data
          /\ err' = out.err
          /\ UNCHANGED <<answer, sent, inputAfter, panicked, conn, exitCode, printed, cmd, registryVars>>

\* the caller has taken the outcome; structs are built afresh for the next call
Return ==
  /\ pc = "done"
  /\ pc' = "idle"
  /\ op' = "none"
  /\ input' = Nil
  /\ answer' = Nil
  /\ sent' = <<>>
  /\ result' = Nil
  /\ err' = Nil
  /\ inputAfter' = Nil
  /\ panicked' = FALSE
  /\ conn' = "none"
  /\ exitCode' = -1
  /\ printed' = <<>>
  /\ cmd' = Nil
  /\ UNCHANGED registryVars

Next ==
  \/ DoGetLoadBalancer
  \/ DoCreateLoadBalancer
  \/ DoDeleteLoadBalancer
  \/ DoListLoadBalancerPrefixes
  \/ DoCreateLoadBalancerPrefix
  \/ DoDeleteLoadBalancerPrefix
  \/ DoGetLoadBalancerTargets
  \/ DoCreateLoadBalancerTarget
  \/ DoDeleteLoadBalancerTarget
  \/ DoGetInterface
  \/ DoListInterfaces
  \/ DoCreateInterface
  \/ DoDeleteInterface
  \/ DoGetVirtualIP
  \/ DoCreateVirtualIP
  \/ DoDeleteVirtualIP
  \/ DoListPrefixes
  \/ DoCreatePrefix
  \/ DoDeletePrefix
  \/ DoListRoutes
  \/ DoCreateRoute
  \/ DoDeleteRoute
  \/ DoGetNat
  \/ DoCreateNat
  \/ DoPrefixAdd
  \/ DoDelInterface
  \/ DoRunCreateLoadBalancer
  \/ DoRunAddLoadBalancerTarget
  \/ DoRunListNats
  \/ DoConvertToTable
  \/ Return

Spec == Init /\ [][Next]_vars

(***************************************************************************)
(* A registry from NewRegistry and the calls made on it, in any order.     *)
(***************************************************************************)
mainVars ==
  <<pc, op, input, answer, sent, result, err, inputAfter, panicked, conn, exitCode, printed, cmd>>

DoRegister ==
  \E name \in RendererNames, newFunc \in NewFuncs :
    LET out == Register(newFuncByName, name, newFunc)
    IN /\ newFuncByName' = out.map
       /\ registryRet' = [call |-> "Register", name |-> name, newFunc |-> newFunc, err |-> out.err]
       /\ UNCHANGED mainVars

DoNew ==
  \E name \in RendererNames, w \in Writers :
    LET out == New(newFuncByName, name, w)
    IN /\ registryRet' = [call |-> "New", name |-> name, w |-> w, renderer |-> out.renderer, err |-> out.err]
       /\ UNCHANGED <<newFuncByName, mainVars>>

NextRegistry ==
  \/ DoRegister
  \/ DoNew

SpecRegistry == Init /\ [][NextRegistry]_vars

(***************************************************************************)
(* Vocabulary of the properties.                                           *)
(***************************************************************************)
GetCreateDeleteOps ==
  {"GetLoadBalancer", "CreateLoadBalancer", "DeleteLoadBalancer", "CreateLoadBalancerPrefix",
   "DeleteLoadBalancerPrefix", "GetLoadBalancerTargets", "CreateLoadBalancerTarget",
   "DeleteLoadBalancerTarget", "GetInterface", "CreateInterface", "DeleteInterface", "GetVirtualIP",
   "CreateVirtualIP", "DeleteVirtualIP", "CreatePrefix", "DeletePrefix", "CreateRoute", "DeleteRoute",
   "GetNat", "CreateNat"}

ListOps == {"ListPrefixes", "ListLoadBalancerPrefixes", "ListInterfaces", "ListRoutes"}

ClientOps == GetCreateDeleteOps \cup ListOps

CreateOps ==
  {"CreateLoadBalancer", "CreateLoadBalancerPrefix", "CreateLoadBalancerTarget", "CreateInterface",
   "CreateVirtualIP", "CreatePrefix", "CreateRoute", "CreateNat"}

\* the operations whose response is itself the status
BareStatusOps ==
  {"DeleteLoadBalancer", "DeleteLoadBalancerPrefix", "CreateLoadBalancerTarget", "DeleteLoadBalancerTarget",
   "DeleteInterface", "DeleteVirtualIP", "DeletePrefix", "CreateRoute", "DeleteRoute"}

\* the status sub-structure of operation o's response (Nil: absent)
ResponseStatus(o, res) ==
  IF o \in BareStatusOps THEN res
  ELSE IF o = "CreateInterface" THEN (IF res.Response = Nil THEN Nil ELSE res.Response.Status)
  ELSE res.Status

\* the underlay-route text of the response of CreateLoadBalancer, CreateInterface, CreateNat
ResponseUnderlay(o, res) ==
  IF o = "CreateInterface" THEN (IF res.Response = Nil THEN <<>> ELSE res.Response.UnderlayRoute)
  ELSE res.UnderlayRoute

\* the response carries a status whose error code is not zero
StatusFailed(o, res) == ResponseStatus(o, res) # Nil /\ ResponseStatus(o, res).Error # 0

\* the operation returned the StatusError of the response's status
ReturnedStatusErrorOf(st) ==
  /\ ~panicked
  /\ result = Nil
  /\ err.kind = "StatusError"
  /\ err.code = st.Error
  /\ err.message = st.Message

\* C1: for every Get, Create and Delete operation, a response without transport error
\* whose status error code is non-zero makes the operation return a StatusError with
\* exactly that code and message and no result object, whatever the rest of the payload.
C1_StatusErrorTakesPrecedence ==
  (pc = "done" /\ op \in GetCreateDeleteOps /\ answer.terr = Nil /\ StatusFailed(op, answer.res))
    => ReturnedStatusErrorOf(ResponseStatus(op, answer.res))

\* a failed status together with an undecodable underlay route
C1_Witness ==
  /\ pc = "done"
  /\ op = "CreateLoadBalancer"
  /\ answer.terr = Nil
  /\ StatusFailed(op, answer.res)
  /\ answer.res.UnderlayRoute = Garbage
  /\ err.kind = "StatusError"
  /\ err.message = "not found"

\* C2: for every List operation, a response whose status carries a non-zero error code
\* makes the call fail with a StatusError of that code and message, and no list is returned.
C2_ListStatusChecked ==
  (pc = "done" /\ op \in ListOps /\ answer.terr = Nil /\ StatusFailed(op, answer.res))
    => ReturnedStatusErrorOf(ResponseStatus(op, answer.res))

\* C3: CreateLoadBalancer, CreateInterface, CreateNat: transport success, status code zero and an
\* underlay route that does not parse give a decode error (not a StatusError) and no result;
\* no result of these operations has a zero underlay route.
C3_UnparsableUnderlayRouteIsDecodeError ==
  (pc = "done" /\ op \in {"CreateLoadBalancer", "CreateInterface", "CreateNat"} /\ answer.terr = Nil)
    => /\ (~StatusFailed(op, answer.res) /\ ~ParseAddr(ResponseUnderlay(op, answer.res)).ok)
            => (~panicked /\ result = Nil /\ err.kind = "DecodeError")
       /\ result # Nil
            => AddrIsValid(IF op = "CreateInterface" THEN result.Status.UnderlayIP
                           ELSE result.Spec.UnderlayRoute)

C3_Witness ==
  /\ pc = "done"
  /\ op = "CreateNat"
  /\ answer.terr = Nil
  /\ ~StatusFailed(op, answer.res)
  /\ answer.res.UnderlayRoute = Garbage
  /\ err.kind = "DecodeError"
  /\ result = Nil

\* C4: every wire-client operation sends exactly one request per invocation in every outcome;
\* a transport error is returned as the same value, with no result object.
C4_OneRoundTripTransportErrorUnchanged ==
  (pc = "done" /\ op \in ClientOps)
    => /\ Len(sent) = 1
       /\ answer.terr # Nil => (~panicked /\ err = answer.terr /\ result = Nil)

C4_Witness ==
  /\ pc = "done"
  /\ op = "DeletePrefix"
  /\ answer.terr # Nil
  /\ err = answer.terr
  /\ Len(sent) = 1

\* the (version tag, address text) pairs of a request
TaggedPairs(req) ==
  CASE req.rpc = "CreateLoadBalancer" ->
         {[tag |-> req.LbVipIP.IpVersion, text |-> req.LbVipIP.Address]}
    [] req.rpc \in {"CreateInterfaceLoadBalancerPrefix", "DeleteInterfaceLoadBalancerPrefix",
                    "AddInterfacePrefix", "DeleteInterfacePrefix"} ->
         {[tag |-> req.Prefix.IpVersion, text |-> req.Prefix.Address]}
    [] req.rpc \in {"AddLoadBalancerTarget", "DeleteLoadBalancerTarget"} ->
         {[tag |-> req.TargetIP.IpVersion, text |-> req.TargetIP.Address]}
    [] req.rpc = "CreateInterface" ->
         {[tag |-> c.IpVersion, text |-> c.PrimaryAddress] : c \in {req.Ipv4Config, req.Ipv6Config} \ {Nil}}
    [] req.rpc = "AddInterfaceVIP" ->
         {[tag |-> req.InterfaceVIPIP.IpVersion, text |-> req.InterfaceVIPIP.Address]}
    [] req.rpc \in {"AddRoute", "DeleteRoute"} ->
         {[tag |-> req.Route.IpVersion, text |-> req.Route.NexthopAddress],
          [tag |-> req.Route.Prefix.IpVersion, text |-> req.Route.Prefix.Address]}
    [] req.rpc = "AddNAT" ->
         {[tag |-> req.NatVIPIP.IpVersion, text |-> req.NatVIPIP.Address]}
    [] OTHER -> {}

\* the address part of an address or prefix text
AddrPart(t) ==
  IF \E i \in 1..Len(t) : t[i] = "/"
    THEN SubSeq(t, 1, (CHOOSE i \in 1..Len(t) : t[i] = "/" /\ \A j \in 1..(i - 1) : t[j] # "/") - 1)
  ELSE t

TagOfFamily(f) == IF f = 4 THEN IPv4 ELSE IF f = 6 THEN IPv6 ELSE "none"

\* C5: in every request sent, each version tag equals the address family of the address
\* carried next to it.
C5_TagMatchesAddressFamily ==
  pc = "done"
    => \A i \in 1..Len(sent) : \A f \in TaggedPairs(sent[i]) :
         /\ ParseAddr(AddrPart(f.text)).ok
         /\ f.tag = TagOfFamily(ParseAddr(AddrPart(f.text)).addr.fam)

PrefixOps ==
  {"CreatePrefix", "DeletePrefix", "CreateLoadBalancerPrefix", "DeleteLoadBalancerPrefix",
   "CreateRoute", "DeleteRoute"}

\* the semantic prefix the caller passed to a prefix-bearing operation
InputPrefix(o, in) ==
  CASE o \in {"CreatePrefix", "CreateLoadBalancerPrefix"} -> in.PrefixMeta.Prefix
    [] o \in {"DeletePrefix", "DeleteLoadBalancerPrefix", "DeleteRoute"} -> in.prefix
    [] o = "CreateRoute" -> in.RouteMeta.Prefix

\* the wire Prefix of a prefix-bearing request
WirePrefixOf(req) == IF req.rpc \in {"AddRoute", "DeleteRoute"} THEN req.Route.Prefix ELSE req.Prefix

\* C6: the wire Prefix built from a semantic prefix P decodes back (address parsed from the
\* Address bytes, with PrefixLength and IpVersion) to a prefix equal to P.
C6_PrefixRoundTrip ==
  (pc = "done" /\ op \in PrefixOps)
    => LET w == WirePrefixOf(sent[1])
           d == ProtoPrefixToPrefix("", w)
       IN /\ d.err = Nil
          /\ d.obj.PrefixMeta.Prefix = InputPrefix(op, input)
          /\ w.IpVersion = TagOfFamily(InputPrefix(op, input).addr.fam)

\* the embedded Meta struct of the object a Create operation takes or returns
MetaOf(o, obj) ==
  CASE o = "CreateLoadBalancer" -> obj.LoadBalancerMeta
    [] o \in {"CreateLoadBalancerPrefix", "CreatePrefix"} -> obj.PrefixMeta
    [] o = "CreateLoadBalancerTarget" -> obj.LoadBalancerTargetMeta
    [] o = "CreateInterface" -> obj.InterfaceMeta
    [] o = "CreateVirtualIP" -> obj.VirtualIPMeta
    [] o = "CreateRoute" -> obj.RouteMeta
    [] o = "CreateNat" -> obj.NatMeta

\* the declared spec of an object: its Spec without the service-assigned underlay route
DeclaredSpec(o, obj) ==
  IF o \in {"CreateLoadBalancer", "CreateNat"}
    THEN [obj.Spec EXCEPT !.UnderlayRoute = ZeroAddr]
  ELSE obj.Spec

\* C7: a successful Create returns a result whose identity fields and spec fields equal
\* those of the input struct.
C7_CreateEchoesIdentityAndSpec ==
  (pc = "done" /\ op \in CreateOps /\ result # Nil)
    => /\ MetaOf(op, result) = MetaOf(op, input)
       /\ DeclaredSpec(op, result) = DeclaredSpec(op, input)

\* the request of CreateLoadBalancer carries exactly the input's ID, VNI, VIP and ports
CreateLoadBalancerRequestExact ==
  /\ Len(sent) = 1
  /\ sent[1].LoadBalancerID = input.LoadBalancerMeta.ID
  /\ sent[1].Vni = input.Spec.VNI
  /\ ParseAddr(sent[1].LbVipIP.Address) = [ok |-> TRUE, addr |-> input.Spec.LbVipIP]
  /\ sent[1].LbVipIP.IpVersion = TagOfFamily(input.Spec.LbVipIP.fam)
  /\ Len(sent[1].Lbports) = Len(input.Spec.Lbports)
  /\ \A i \in 1..Len(input.Spec.Lbports) :
       /\ sent[1].Lbports[i].Protocol = input.Spec.Lbports[i].Protocol
       /\ sent[1].Lbports[i].Port = input.Spec.Lbports[i].Port

\* the response is a success response with a parsable underlay route
CreateLoadBalancerSucceeds ==
  /\ answer.terr = Nil
  /\ answer.res.Status # Nil
  /\ answer.res.Status.Error = 0
  /\ ParseAddr(answer.res.UnderlayRoute).ok

\* the underlay route the status of an object carries (the zero Addr when it carries none)
StatusUnderlayRoute(obj) ==
  IF "UnderlayRoute" \in DOMAIN obj.Status THEN obj.Status.UnderlayRoute ELSE ZeroAddr

InputRouteTuple(o, in) ==
  IF o = "CreateRoute"
    THEN [vni |-> in.RouteMeta.VNI, prefix |-> in.RouteMeta.Prefix,
          nextHopVNI |-> in.RouteMeta.NextHop.VNI, nextHopIP |-> in.RouteMeta.NextHop.IP]
  ELSE in

\* C9: CreateRoute and DeleteRoute send a single request whose weight is 100 and whose VNI,
\* prefix, next-hop VNI and next-hop address are exactly those the caller supplied.
C9_RouteRequestCarriesTupleAndWeight ==
  (pc = "done" /\ op \in {"CreateRoute", "DeleteRoute"})
    => LET k == InputRouteTuple(op, input)
           d == ProtoPrefixToPrefix("", sent[1].Route.Prefix)
       IN /\ Len(sent) = 1
          /\ sent[1].Route.Weight = 100
          /\ sent[1].Vni.Vni = k.vni
          /\ sent[1].Route.NexthopVNI = k.nextHopVNI
          /\ ParseAddr(sent[1].Route.NexthopAddress) = [ok |-> TRUE, addr |-> k.nextHopIP]
          /\ d.err = Nil
          /\ d.obj.PrefixMeta.Prefix = k.prefix

ListingOps == ListOps \cup {"GetLoadBalancerTargets"}

\* the elements of a list response
ResponseElems(o, res) ==
  CASE o \in {"ListPrefixes", "ListLoadBalancerPrefixes"} -> res.Prefixes
    [] o = "ListInterfaces" -> res.Interfaces
    [] o = "ListRoutes" -> res.Routes
    [] o = "GetLoadBalancerTargets" -> res.TargetIPs

\* the translation of one element of a list response
Translation(o, in, e) ==
  CASE o = "ListPrefixes" -> ProtoPrefixToPrefix(in.id, e).obj
    [] o = "ListLoadBalancerPrefixes" -> ProtoPrefixToPrefix(in.id, ProtoLBPrefixToProtoPrefix(e)).obj
    [] o = "ListInterfaces" -> ProtoInterfaceToInterface(e).obj
    [] o = "ListRoutes" -> ProtoRouteToRoute(in.vni, e).obj
    [] o = "GetLoadBalancerTargets" ->
         [TypeMeta |-> TypeMeta("LoadBalancerTarget"),
          LoadBalancerTargetMeta |-> [ID |-> in.id],
          Spec |-> [TargetIP |-> ProtoLbipToLbip(e)]]

\* C10: a successful list result has as many items as the response has elements, and item i
\* is the translation of element i.
C10_ListPreservesOrderAndLength ==
  (pc = "done" /\ op \in ListingOps /\ result # Nil)
    => /\ Len(result.Items) = Len(ResponseElems(op, answer.res))
       /\ \A i \in 1..Len(result.Items) :
            result.Items[i] = Translation(op, input, ResponseElems(op, answer.res)[i])

\* two different routes, listed in the service's order
C10_Witness ==
  /\ pc = "done"
  /\ op = "ListRoutes"
  /\ result # Nil
  /\ Len(result.Items) = 2
  /\ result.Items[1] # result.Items[2]
  /\ result.Items[1].RouteMeta.NextHop.IP = ParseAddr(answer.res.Routes[1].NexthopAddress).addr

\* the error the translation of one element of a list response reports (Nil: none; the
\* translation of a load-balancer target has no error result)
TranslationError(o, in, e) ==
  CASE o = "ListPrefixes" -> ProtoPrefixToPrefix(in.id, e).err
    [] o = "ListLoadBalancerPrefixes" -> ProtoPrefixToPrefix(in.id, ProtoLBPrefixToProtoPrefix(e)).err
    [] o = "ListInterfaces" -> ProtoInterfaceToInterface(e).err
    [] o = "ListRoutes" -> ProtoRouteToRoute(in.vni, e).err
    [] o = "GetLoadBalancerTargets" -> Nil

\* the positions of the response's elements whose translation fails
FailingPositions ==
  {i \in 1..Len(ResponseElems(op, answer.res)) :
     TranslationError(op, input, ResponseElems(op, answer.res)[i]) # Nil}

PairOps ==
  ClientOps \ {"DeleteLoadBalancer", "DeleteLoadBalancerPrefix", "DeleteLoadBalancerTarget",
               "DeleteInterface", "DeleteVirtualIP", "DeletePrefix", "DeleteRoute"}

\* C12: every invocation of a wire-client operation with a (result, error) pair hands its
\* caller either a non-nil result with a nil error or a nil result with a non-nil error.
C12_ExactlyOneOfResultAndError ==
  (pc = "done" /\ op \in PairOps)
    => /\ ~panicked
       /\ \/ (result # Nil /\ err = Nil)
          \/ (result = Nil /\ err # Nil)

\* C13: when the client returned a non-nil error to RunCreateLoadBalancer or
\* RunAddLoadBalancerTarget, the command returns an error, renders nothing and does not
\* touch the object the client returned.
C13_CreateErrorIsAuthoritative ==
  (pc = "done" /\ op \in {"RunCreateLoadBalancer", "RunAddLoadBalancerTarget"}
     /\ sent # <<>> /\ err # Nil)
    => /\ cmd.ret # Nil
       /\ cmd.rendered = <<>>
       /\ ~cmd.touched

\* the commands, each run with its own connection
Commands == {"prefix add", "interface del", "RunCreateLoadBalancer", "RunAddLoadBalancerTarget"}

\* C14: whenever a command has obtained its client, the connection cleanup has run by the time
\* the command or the process ends, on every path.
C14_ConnectionClosedOnEveryPath ==
  (pc = "done" /\ op \in Commands /\ conn # "none") => conn = "closed"

\* the number of objects a rendered value holds
ObjectCount(v) == IF v.type \in ListTypes THEN Len(v.value.Items) ELSE 1

\* C15: for an object of every resource kind (Interface, VirtualIP, Prefix, Route, LoadBalancer,
\* LoadBalancerTarget, Nat) and for every list the client returns, the default table converter
\* returns table data with one row per object and no error.
C15_TableForEveryKind ==
  (pc = "done" /\ op = "ConvertToTable")
    => /\ err = Nil
       /\ result # Nil
       /\ Len(result.Columns) = ObjectCount(input)

\* C16: on a registry from NewRegistry, after any sequence of calls: Register(name, f) succeeds
\* exactly when name was not registered before, and then binds name to f; a Register that
\* fails leaves the registry unchanged; no call changes the function a name is bound to; New
\* never changes the registry, builds the renderer with the function bound to the name, and
\* returns an error and no renderer for a name never registered.
C16_RegistryKeepsFirstRegistration ==
  [][IF registryRet'.call = "Register"
       THEN /\ (registryRet'.err = Nil) <=> (registryRet'.name \notin DOMAIN newFuncByName)
            /\ (registryRet'.err # Nil) => (newFuncByName' = newFuncByName)
            /\ (registryRet'.err = Nil)
                 => (/\ DOMAIN newFuncByName' = DOMAIN newFuncByName \cup {registryRet'.name}
                     /\ newFuncByName'[registryRet'.name] = registryRet'.newFunc)
            /\ \A n \in DOMAIN newFuncByName :
                 n \in DOMAIN newFuncByName' /\ newFuncByName'[n] = newFuncByName[n]
     ELSE /\ newFuncByName' = newFuncByName
          /\ (registryRet'.name \in DOMAIN newFuncByName)
               => (/\ registryRet'.err = Nil
                   /\ registryRet'.renderer =
                        CallNewFunc(newFuncByName[registryRet'.name], registryRet'.w))
          /\ (registryRet'.name \notin DOMAIN newFuncByName)
               => (/\ registryRet'.err # Nil
                   /\ registryRet'.err.kind = "UnknownRenderer"
                   /\ registryRet'.renderer = Nil)]_registryVars

\* a second Register of a name with another function has failed and the first function is kept
C16_Witness ==
  /\ registryRet # Nil
  /\ registryRet.call = "Register"
  /\ registryRet.err # Nil
  /\ registryRet.name \in DOMAIN newFuncByName
  /\ newFuncByName[registryRet.name] # registryRet.newFunc

\* C17: CreateLoadBalancer and CreateNat do not panic on a response that came without transport
\* error; for a response without status sub-structure and with a parsable underlay route they
\* return a result whose status has error code 0 and an empty message.
C17_NoCrashOnNilStatus ==
  (pc = "done" /\ op \in {"CreateLoadBalancer", "CreateNat"} /\ answer.terr = Nil)
    => /\ ~panicked
       /\ (answer.res.Status = Nil /\ ParseAddr(answer.res.UnderlayRoute).ok)
            => (/\ err = Nil
                /\ result # Nil
                /\ result.Status = [Error |-> 0, Message |-> ""])

\* whether the item has the key --sort-by names ("ip" and "underlayroute" name pointers)
HasSortKey(sortBy, m) ==
  CASE ToLower(sortBy) = "ip" -> m.Spec.NatIP # Nil
    [] ToLower(sortBy) = "underlayroute" -> m.Spec.UnderlayRoute # Nil
    [] OTHER -> TRUE

\* whether the key of x is strictly after the key of y; both have the key
SortKeyAfter(sortBy, x, y) ==
  CASE ToLower(sortBy) = "ip" -> StringLess(AddrString(y.Spec.NatIP), AddrString(x.Spec.NatIP))
    [] ToLower(sortBy) = "minport" -> y.Spec.MinPort < x.Spec.MinPort
    [] ToLower(sortBy) = "maxport" -> y.Spec.MaxPort < x.Spec.MaxPort
    [] ToLower(sortBy) = "underlayroute" ->
         StringLess(AddrString(y.Spec.UnderlayRoute), AddrString(x.Spec.UnderlayRoute))
    [] OTHER -> y.Spec.Vni < x.Spec.Vni

\* how often x occurs in s
Occurrences(s, x) == Cardinality({k \in 1..Len(s) : s[k] = x})

\* C18: RunListNats renders a permutation of the items the client returned, and for every
\* --sort-by every two rendered items that both have the key are in non-decreasing order of
\* the key, also when other items of the list have a nil key.
C18_RenderedNatsAreSortedPermutation ==
  (pc = "done" /\ op = "RunListNats" /\ cmd.rendered # <<>>) =>
    LET items == answer.res.Items
        out == cmd.rendered[1].obj.Items
        sortBy == input.opts.SortBy
    IN /\ Len(out) = Len(items)
       /\ \A x \in NatEntries : Occurrences(out, x) = Occurrences(items, x)
       /\ \A i \in 1..Len(out) : \A j \in (i + 1)..Len(out) :
            (HasSortKey(sortBy, out[i]) /\ HasSortKey(sortBy, out[j])) =>
              ~SortKeyAfter(sortBy, out[i], out[j])

\* the operations that write to the caller's struct
WritingOps == {"CreateLoadBalancer", "CreateNat"}

\* C19: every wire-client operation leaves the caller's struct unchanged when it returns an
\* error; the only writes are CreateLoadBalancer and CreateNat storing the parsed underlay
\* route into the input's Spec.UnderlayRoute, and they happen only when the call succeeds.
C19_InputWrittenOnlyOnSuccess ==
  (pc = "done" /\ op \in ClientOps) =>
    /\ err # Nil => inputAfter = input
    /\ inputAfter # input =>
         /\ op \in WritingOps
         /\ err = Nil /\ ~panicked /\ result # Nil
         /\ ParseAddr(answer.res.UnderlayRoute).ok
         /\ inputAfter = [input EXCEPT !.Spec.UnderlayRoute = ParseAddr(answer.res.UnderlayRoute).addr]

\* the --lbports entries of the running command that do not convert
BadLbports == {i \in 1..Len(input.opts.Lbports) : ~StringLbportToLbport(input.opts.Lbports[i]).ok}

\* C20: RunCreateLoadBalancer obtains the client, converts every --lbports entry, then issues
\* the RPC.  If an entry fails to convert, the command returns a conversion error, no
\* CreateLoadBalancer RPC is issued, nothing is rendered and the connection is closed; when
\* all entries convert, the RPC carries one port per entry, in the order given.
C20_PortsConvertedBeforeTheRPC ==
  (pc = "done" /\ op = "RunCreateLoadBalancer" /\ input.factory = Nil) =>
    IF BadLbports # {}
      THEN /\ sent = <<>>
           /\ cmd.ret # Nil /\ cmd.ret.kind = "Wrapped" /\ cmd.ret.what = "error converting port"
           /\ cmd.rendered = <<>>
           /\ conn = "closed"
    ELSE /\ Len(sent) = 1
         /\ sent[1].rpc = "CreateLoadBalancer"
         /\ Len(sent[1].Lbports) = Len(input.opts.Lbports)
         /\ \A i \in 1..Len(input.opts.Lbports) :
              LET port == StringLbportToLbport(input.opts.Lbports[i]).port
              IN sent[1].Lbports[i] = [Port |-> port.Port, Protocol |-> port.Protocol]

\* a run whose first entry converts and whose second does not: nothing sent, connection closed
C20_Witness ==
  /\ pc = "done" /\ op = "RunCreateLoadBalancer" /\ input.factory = Nil
  /\ BadLbports = {2}
  /\ sent = <<>> /\ conn = "closed" /\ cmd.rendered = <<>>
====
